---- MODULE Spec2Model ----
(***************************************************************************)
(* Kobo annotation exporter: the location decoders, the chapter locator    *)
(* and the page-render pipeline of src/export_annotations.py               *)
(* (KoboToJoplinApp.get_annotation_position, .get_page_image).             *)
(*                                                                         *)
(* Text is a sequence of tokens.  A token is a run of characters that the  *)
(* configured markers and patterns never cut: "OEBPS/", "part", ".xhtml",  *)
(* "!!", a single digit, ...  Substring search, split and pattern search   *)
(* work on tokens exactly as Python's work on characters.                  *)
(***************************************************************************)
EXTENDS Integers, Sequences, FiniteSets, TLC

\* ------------------------------------------------------------------ text

Digits == {"0", "1", "2", "3", "4", "5", "6", "7", "8", "9"}

\* Tokens made of word characters only (what \w+ may run over).
WordTokens == Digits \cup {"book", "part", "PART", "chapter", "CHAPTER", "x"}

\* str.lower() on one token (re.IGNORECASE compares the lowered text).
Lower(t) ==
    CASE t = "PART" -> "part"
      [] t = "CHAPTER" -> "chapter"
      [] t = "OEBPS/" -> "oebps/"
      [] OTHER -> t

\* Code-point order of the first character of each token (str.__lt__).
Rank(t) ==
    CASE t = "#" -> 35
      [] t = "-" -> 45
      [] t = ".xhtml" -> 46
      [] t = "0" -> 48 [] t = "1" -> 49 [] t = "2" -> 50 [] t = "3" -> 51
      [] t = "4" -> 52 [] t = "5" -> 53 [] t = "6" -> 54 [] t = "7" -> 55
      [] t = "8" -> 56 [] t = "9" -> 57
      [] t = ":" -> 58
      [] t = "CHAPTER" -> 67
      [] t = "OEBPS/" -> 79
      [] t = "PART" -> 80
      [] t = "book." -> 98
      [] t = "book" -> 98
      [] t = "chapter" -> 99
      [] t = "epub" -> 101
      [] t = "kepub.epub" -> 107
      [] t = "part" -> 112
      [] t = "x" -> 120
      [] OTHER -> 33

\* s[i:i+len(t)] == t, compared case-insensitively when ic.
StartsAt(s, t, i, ic) ==
    /\ i >= 1
    /\ i + Len(t) - 1 <= Len(s)
    /\ \A k \in 1..Len(t) :
          IF ic THEN Lower(s[i + k - 1]) = Lower(t[k]) ELSE s[i + k - 1] = t[k]

\* t in s
Contains(t, s) == \E i \in 1..(Len(s) + 1) : StartsAt(s, t, i, FALSE)

\* s.find(t) + 1; 0 when t is not in s
Find(s, t) ==
    IF Contains(t, s)
    THEN CHOOSE i \in 1..(Len(s) + 1) :
            /\ StartsAt(s, t, i, FALSE)
            /\ \A j \in 1..(i - 1) : ~StartsAt(s, t, j, FALSE)
    ELSE 0

\* s.split(sep)[0]
SplitHead(s, sep) == IF Contains(sep, s) THEN SubSeq(s, 1, Find(s, sep) - 1) ELSE s

\* What follows the first occurrence of sep in s.
SplitRest(s, sep) ==
    IF Contains(sep, s) THEN SubSeq(s, Find(s, sep) + Len(sep), Len(s)) ELSE <<>>

\* s.split(sep)[1], for sep in s: the text between the first occurrence of
\* sep and the next one.
SplitSecond(s, sep) == SplitHead(SplitRest(s, sep), sep)

\* ------------------------------------------------------------------ re

\* A chapter pattern  pre ( class+ ) post [ (?: sep (\d+) )? ]  with
\* class \d ("d"), \w ("w") or [-\d] ("m"); groups is the number of capture
\* groups the pattern defines.
InClass(cls, t) ==
    CASE cls = "d" -> t \in Digits
      [] cls = "w" -> t \in WordTokens
      [] cls = "m" -> t \in Digits \cup {"-"}
      [] OTHER -> FALSE

\* The pattern matches at i with an n-token group 1.
MatchAt(pat, s, i, n, ic) ==
    /\ StartsAt(s, pat.pre, i, ic)
    /\ i + Len(pat.pre) + n - 1 <= Len(s)
    /\ \A k \in 0..(n - 1) : InClass(pat.cls, s[i + Len(pat.pre) + k])
    /\ StartsAt(s, pat.post, i + Len(pat.pre) + n, ic)

\* Every <<start, length of group 1>> at which the pattern matches.
Matches(pat, s, ic) ==
    {m \in (1..Len(s)) \X (1..Len(s)) : MatchAt(pat, s, m[1], m[2], ic)}

\* The match the engine reports: leftmost start, then the longest group 1.
Leftmost(M) ==
    CHOOSE m \in M : \A o \in M : m[1] < o[1] \/ (m[1] = o[1] /\ m[2] >= o[2])

\* Length of the run of digits of s starting at i (greedy \d+).
RECURSIVE DigitRun(_, _)
DigitRun(s, i) == IF i <= Len(s) /\ s[i] \in Digits THEN 1 + DigitRun(s, i + 1) ELSE 0

\* Length of group 2 when the optional tail matches at e, else 0.
TailRun(pat, s, e, ic) ==
    IF pat.groups = 2 /\ StartsAt(s, pat.sep, e, ic)
    THEN DigitRun(s, e + Len(pat.sep)) ELSE 0

NoMatch == [found |-> FALSE, g1 |-> <<>>, g2set |-> FALSE, g2 |-> <<>>]

\* The match object: group 1 is n tokens from a, group 2 is r tokens from
\* b; g2set says whether group 2 took part in the match.
MatchObject(s, a, n, b, r) ==
    [found |-> TRUE, g1 |-> SubSeq(s, a, a + n - 1),
     g2set |-> r > 0, g2 |-> SubSeq(s, b, b + r - 1)]

Groups(pat, s, m, ic) ==
    MatchObject(s, m[1] + Len(pat.pre), m[2],
                m[1] + Len(pat.pre) + m[2] + Len(pat.post) + Len(pat.sep),
                TailRun(pat, s, m[1] + Len(pat.pre) + m[2] + Len(pat.post), ic))

SearchAmong(pat, s, M, ic) == IF M = {} THEN NoMatch ELSE Groups(pat, s, Leftmost(M), ic)

\* re.search(pat, s, flags)
Search(pat, s, ic) == SearchAmong(pat, s, Matches(pat, s, ic), ic)

\* ------------------------------------------------------------------ int()

DigitVal(t) ==
    CASE t = "0" -> 0 [] t = "1" -> 1 [] t = "2" -> 2 [] t = "3" -> 3
      [] t = "4" -> 4 [] t = "5" -> 5 [] t = "6" -> 6 [] t = "7" -> 7
      [] t = "8" -> 8 [] t = "9" -> 9 [] OTHER -> 0

AllDigits(g) == Len(g) >= 1 /\ \A k \in 1..Len(g) : g[k] \in Digits

\* int(g) does not raise ValueError
IsIntLit(g) ==
    \/ AllDigits(g)
    \/ Len(g) >= 2 /\ g[1] = "-" /\ AllDigits(Tail(g))

RECURSIVE NatVal(_)
NatVal(g) == IF g = <<>> THEN 0
             ELSE 10 * NatVal(SubSeq(g, 1, Len(g) - 1)) + DigitVal(g[Len(g)])

\* int(g), for IsIntLit(g)
IntVal(g) == IF g[1] = "-" THEN 0 - NatVal(Tail(g)) ELSE NatVal(g)

\* ------------------------------------------------------------------ sorting

\* list.sort(key=...) is stable: the element at i lands after every element
\* with a smaller key and after every element with an equal key that stood
\* before it.  keys[i] is the key of s[i].
SortPos(keys, i) ==
    1 + Cardinality({j \in 1..Len(keys) :
                        \/ keys[j] < keys[i]
                        \/ keys[j] = keys[i] /\ j < i})

SortByKey(s, keys) ==
    [p \in 1..Len(s) |-> s[CHOOSE i \in 1..Len(s) : SortPos(keys, i) = p]]

\* a < b for str: the first differing character decides, a proper prefix
\* is smaller.
LexLess(a, b) ==
    \E k \in 1..(Len(a) + 1) :
       /\ k <= Len(b)
       /\ \A j \in 1..(k - 1) : a[j] = b[j]
       /\ (k = Len(a) + 1 \/ Rank(a[k]) < Rank(b[k]))

\* doc_items.sort(key=lambda x: x.get_name())
SortByName(names) ==
    SortByKey(names,
              [i \in 1..Len(names) |->
                  Cardinality({j \in 1..Len(names) : LexLess(names[j], names[i])})])

\* ------------------------------------------------------------------ results

\* None, with the diagnostic the code prints before returning it.
NoneResult(why) == [tag |-> "None", why |-> why]

\* An exception that leaves the function.
Raised(what) == [tag |-> "raised", what |-> what]

\* The loop ran to its end without returning.
Exhausted == [tag |-> "exhausted"]

\* r'part(\d+)\.xhtml'
FallbackPattern ==
    [pre |-> <<"part">>, cls |-> "d", post |-> <<".xhtml">>, groups |-> 1, sep |-> <<>>]

\* 'OEBPS/part'
FallbackMarker == <<"OEBPS/", "part">>

\* ------------------------------------------------------------------
\* get_annotation_position: the content-id parser.  The record carries kind
\* and entry (which format decided) for the statements below; the
\* dictionary the code returns has the other fields.

RECURSIVE PositionKepub(_, _, _, _)

\* PositionKepubEntry cutting the path at path_marker, as the EPUB branch
\* does, instead of at epub_path_split.
PositionKepubEntrySplitAtMarker(kf, content_id, ChapterProgress, i, chapter_match) ==
    IF Contains(kf[i].path_marker, content_id) /\ chapter_match.found
    THEN IF ~IsIntLit(chapter_match.g1) THEN NoneResult("Error parsing content ID")
         ELSE IF ~kf[i].has_split THEN NoneResult("Error getting annotation position")
         ELSE [tag |-> "record", kind |-> "KEPUB", entry |-> i,
               chapter_num |-> IntVal(chapter_match.g1),
               position |-> 0,
               epub_path |-> SplitHead(content_id, kf[i].path_marker),
               ChapterProgress |-> ChapterProgress,
               containers |-> TRUE]
    ELSE PositionKepub(kf, content_id, ChapterProgress, i + 1)

\* Lines 1407-1429, for entry i with its pattern searched in content_id.
PositionKepubEntry(kf, content_id, ChapterProgress, i, chapter_match) ==
    IF Contains(kf[i].path_marker, content_id) /\ chapter_match.found
    THEN IF ~IsIntLit(chapter_match.g1) THEN NoneResult("Error parsing content ID")
         \* format_config['epub_path_split'] of an entry without it: KeyError
         ELSE IF ~kf[i].has_split THEN NoneResult("Error getting annotation position")
         ELSE [tag |-> "record", kind |-> "KEPUB", entry |-> i,
               chapter_num |-> IntVal(chapter_match.g1),
               position |-> 0,
               epub_path |-> SplitHead(content_id, kf[i].epub_path_split),
               ChapterProgress |-> ChapterProgress,
               containers |-> TRUE]
    ELSE PositionKepub(kf, content_id, ChapterProgress, i + 1)

\* Lines 1406-1429: the loop over the KEPUB formats, from entry i.
PositionKepub(kf, content_id, ChapterProgress, i) ==
    IF i > Len(kf) THEN Exhausted
    ELSE PositionKepubEntry(kf, content_id, ChapterProgress, i,
                            Search(kf[i].chapter_pattern, content_id, FALSE))

RECURSIVE PositionEpub(_, _, _, _)

\* PositionEpubEntry going on to the next entry when int() raises.
PositionEpubEntrySkipsMalformed(ef, content_id, ChapterProgress, i, chapter_match) ==
    IF /\ Contains(ef[i].path_marker, content_id)
       /\ chapter_match.found
       /\ IsIntLit(chapter_match.g1)
    THEN IF ef[i].chapter_pattern.groups < 2
         THEN NoneResult("Error parsing content ID")
         ELSE [tag |-> "record", kind |-> "EPUB", entry |-> i,
               chapter_num |-> IntVal(chapter_match.g1),
               position |-> IF chapter_match.g2set THEN IntVal(chapter_match.g2) ELSE 0,
               epub_path |-> SplitHead(content_id, ef[i].path_marker),
               ChapterProgress |-> ChapterProgress,
               containers |-> FALSE]
    ELSE PositionEpub(ef, content_id, ChapterProgress, i + 1)

\* Lines 1433-1451, for entry i with its pattern searched in parts[1]
\* (len(parts) > 1 whenever the marker is in content_id).
PositionEpubEntry(ef, content_id, ChapterProgress, i, chapter_match) ==
    IF Contains(ef[i].path_marker, content_id) /\ chapter_match.found
    THEN IF ~IsIntLit(chapter_match.g1) THEN NoneResult("Error parsing content ID")
         \* group(2) of a pattern with one group: IndexError
         ELSE IF ef[i].chapter_pattern.groups < 2
         THEN NoneResult("Error parsing content ID")
         ELSE [tag |-> "record", kind |-> "EPUB", entry |-> i,
               chapter_num |-> IntVal(chapter_match.g1),
               position |-> IF chapter_match.g2set THEN IntVal(chapter_match.g2) ELSE 0,
               epub_path |-> SplitHead(content_id, ef[i].path_marker),
               ChapterProgress |-> ChapterProgress,
               containers |-> FALSE]
    ELSE PositionEpub(ef, content_id, ChapterProgress, i + 1)

\* Lines 1432-1451: the loop over the EPUB formats, from entry i.
PositionEpub(ef, content_id, ChapterProgress, i) ==
    IF i > Len(ef) THEN Exhausted
    ELSE PositionEpubEntry(ef, content_id, ChapterProgress, i,
            Search(ef[i].chapter_pattern, SplitSecond(content_id, ef[i].path_marker), FALSE))

\* Lines 1454-1472
PositionFallbackMatch(content_id, ChapterProgress, chapter_match) ==
    IF Contains(FallbackMarker, content_id) /\ chapter_match.found
    THEN [tag |-> "record", kind |-> "fallback", entry |-> 0,
          chapter_num |-> IntVal(chapter_match.g1),
          position |-> 0,
          epub_path |-> SplitHead(content_id, <<"!!">>),
          ChapterProgress |-> ChapterProgress,
          containers |-> FALSE]
    ELSE NoneResult("Could not match content ID")

PositionFallback(content_id, ChapterProgress) ==
    PositionFallbackMatch(content_id, ChapterProgress,
                          Search(FallbackPattern, content_id, FALSE))

\* What the first loop that returned has returned, else the last resort.
FirstOf(a, b, c) == IF a # Exhausted THEN a ELSE IF b # Exhausted THEN b ELSE c

\* Lines 1404-1476: KEPUB list, then EPUB list, then the OEBPS/part pattern.
ParsePosition(chapter_formats, content_id, ChapterProgress) ==
    FirstOf(PositionKepub(chapter_formats.kepub_formats, content_id, ChapterProgress, 1),
            PositionEpub(chapter_formats.epub_formats, content_id, ChapterProgress, 1),
            PositionFallback(content_id, ChapterProgress))

\* get_annotation_position(db_path, bookmark_id).  outcome is what the
\* database does: "no_connect" (sqlite3.connect raises), "query_error", "no_row", or
\* "row" with the bookmark's ContentID and ChapterProgress.  When connect
\* raised, conn is unbound in the finally clause and `if conn` raises.
get_annotation_position(chapter_formats, outcome, content_id, ChapterProgress) ==
    CASE outcome = "no_connect"  -> Raised("UnboundLocalError: conn")
      [] outcome = "query_error" -> NoneResult("Error getting annotation position")
      [] outcome = "no_row"      -> NoneResult("")
      [] OTHER              -> ParsePosition(chapter_formats, content_id, ChapterProgress)

\* ------------------------------------------------------------------
\* get_page_image, lines 836-993: its own parse of the content id and the
\* search for the chapter among the package's document names (docs, in
\* package order).

Chapter(name, kind, entry, chapter_num, position) ==
    [tag |-> "chapter", name |-> name, kind |-> kind, entry |-> entry,
     chapter_num |-> chapter_num, position |-> position]

RECURSIVE KepubChapterNumber(_, _, _)

KepubNumberOrNext(kf, href, i, match) ==
    IF match.found
    THEN IF IsIntLit(match.g1) THEN [err |-> FALSE, n |-> IntVal(match.g1)]
         ELSE [err |-> TRUE, n |-> 0]
    ELSE KepubChapterNumber(kf, href, i + 1)

\* get_chapter_number (lines 867-874): the number the first matching KEPUB
\* pattern captures in href, 0 when none matches; err when int() raises.
KepubChapterNumber(kf, href, i) ==
    IF i > Len(kf) THEN [err |-> FALSE, n |-> 0]
    ELSE KepubNumberOrNext(kf, href, i, Search(kf[i].chapter_pattern, href, TRUE))

RECURSIVE KepubItemHit(_, _, _, _)

KepubHitOrNext(kf, href, chapter_num, i, match) ==
    IF match.found /\ ~IsIntLit(match.g1) THEN "ValueError"
    ELSE IF match.found /\ IntVal(match.g1) = chapter_num THEN "hit"
    ELSE KepubItemHit(kf, href, chapter_num, i + 1)

\* Lines 883-891: does some KEPUB pattern capture chapter_num in href?
KepubItemHit(kf, href, chapter_num, i) ==
    IF i > Len(kf) THEN "miss"
    ELSE KepubHitOrNext(kf, href, chapter_num, i,
                        Search(kf[i].chapter_pattern, href, TRUE))

RECURSIVE KepubScan(_, _, _, _)

KepubScanItem(kf, doc_items, chapter_num, j, h) ==
    CASE h = "hit" -> [tag |-> "hit", name |-> doc_items[j]]
      [] h = "ValueError" -> [tag |-> "ValueError"]
      [] OTHER -> KepubScan(kf, doc_items, chapter_num, j + 1)

\* Lines 881-893: the first item of the sorted list that hits.
KepubScan(kf, doc_items, chapter_num, j) ==
    IF j > Len(doc_items) THEN [tag |-> "miss"]
    ELSE KepubScanItem(kf, doc_items, chapter_num, j,
                       KepubItemHit(kf, doc_items[j], chapter_num, 1))

\* Lines 855-862: the documents some KEPUB pattern matches, ignoring case.
KepubItems(kf, docs) ==
    SelectSeq(docs, LAMBDA href :
        \E i \in 1..Len(kf) : Search(kf[i].chapter_pattern, href, TRUE).found)

\* Lines 895-902
KepubFound(entry, chapter_num, found) ==
    CASE found.tag = "hit" -> Chapter(found.name, "KEPUB", entry, chapter_num, 0)
      [] found.tag = "ValueError" -> NoneResult("Invalid content ID format")
      [] OTHER -> NoneResult("Could not find chapter")

\* Lines 876-893: sort by number, then scan; numbers[j] is the number of
\* doc_items[j].
KepubSortAndScan(kf, entry, chapter_num, doc_items, numbers) ==
    IF \E j \in 1..Len(doc_items) : numbers[j].err
    THEN NoneResult("Invalid content ID format")
    ELSE KepubFound(entry, chapter_num,
            KepubScan(kf,
                      SortByKey(doc_items, [j \in 1..Len(doc_items) |-> numbers[j].n]),
                      chapter_num, 1))

KepubNumbers(kf, doc_items) ==
    [j \in 1..Len(doc_items) |-> KepubChapterNumber(kf, doc_items[j], 1)]

KepubLocateAmong(kf, entry, chapter_num, doc_items) ==
    KepubSortAndScan(kf, entry, chapter_num, doc_items, KepubNumbers(kf, doc_items))

\* Lines 852-899: the KEPUB chapter search.
KepubLocate(kf, docs, entry, chapter_num) ==
    KepubLocateAmong(kf, entry, chapter_num, KepubItems(kf, docs))

RECURSIVE PageKepub(_, _, _, _)

\* Lines 839-902, for entry i with its pattern searched in content_id.
PageKepubEntry(kf, content_id, docs, i, chapter_match) ==
    IF Contains(kf[i].path_marker, content_id) /\ chapter_match.found
    THEN IF ~IsIntLit(chapter_match.g1) THEN NoneResult("Invalid content ID format")
         ELSE KepubLocate(kf, docs, i, IntVal(chapter_match.g1))
    ELSE PageKepub(kf, content_id, docs, i + 1)

\* Lines 838-902: the loop over the KEPUB formats, from entry i.
PageKepub(kf, content_id, docs, i) ==
    IF i > Len(kf) THEN Exhausted
    ELSE PageKepubEntry(kf, content_id, docs, i,
                        Search(kf[i].chapter_pattern, content_id, FALSE))

\* get_chapter_number (lines 929-935): 0 when the name has no number.
FallbackNumberOf(match) == IF match.found THEN IntVal(match.g1) ELSE 0

FallbackChapterNumber(href) == FallbackNumberOf(Search(FallbackPattern, href, FALSE))

\* Lines 918-924: the documents whose name contains 'OEBPS/part'.
FallbackItems(docs) == SelectSeq(docs, LAMBDA href : Contains(FallbackMarker, href))

\* Lines 937: doc_items.sort(key=get_chapter_number)
FallbackSorted(doc_items) ==
    SortByKey(doc_items,
              [j \in 1..Len(doc_items) |-> FallbackChapterNumber(doc_items[j])])

\* Lines 942-951: the positions whose name has the number chapter_num.
FallbackHits(sorted, chapter_num) ==
    {j \in 1..Len(sorted) :
        /\ Search(FallbackPattern, sorted[j], FALSE).found
        /\ FallbackChapterNumber(sorted[j]) = chapter_num}

\* Lines 953-957
FallbackFound(sorted, chapter_num, hits) ==
    IF hits = {} THEN NoneResult("Could not find OEBPS chapter")
    ELSE Chapter(sorted[CHOOSE j \in hits : \A k \in hits : j <= k],
                 "fallback", 0, chapter_num, 0)

FallbackScan(sorted, chapter_num) ==
    FallbackFound(sorted, chapter_num, FallbackHits(sorted, chapter_num))

PageFallbackMatch(docs, chapter_match) ==
    IF ~chapter_match.found THEN NoneResult("Could not parse OEBPS chapter number")
    ELSE FallbackScan(FallbackSorted(FallbackItems(docs)), IntVal(chapter_match.g1))

\* Lines 908-962: the OEBPS/part chapter search.
PageFallback(content_id, docs) ==
    PageFallbackMatch(docs, Search(FallbackPattern, content_id, FALSE))

\* OrdinalPick without the test 0 <= chapter_num - 1: a negative index
\* counts from the end of the list.
OrdinalPickFromEnd(doc_items, entry, chapter_num, position) ==
    IF chapter_num - 1 < Len(doc_items)
    THEN IF chapter_num >= 1
         THEN Chapter(doc_items[chapter_num], "EPUB", entry, chapter_num, position)
         ELSE IF Len(doc_items) + chapter_num >= 1
         THEN Chapter(doc_items[Len(doc_items) + chapter_num], "EPUB", entry,
                      chapter_num, position)
         ELSE NoneResult("Invalid content ID format")
    ELSE NoneResult("Chapter number out of range")

\* Lines 980-985: the chapter_num-th of the sorted documents.
OrdinalPick(doc_items, entry, chapter_num, position) ==
    IF 0 <= chapter_num - 1 /\ chapter_num - 1 < Len(doc_items)
    THEN Chapter(doc_items[chapter_num], "EPUB", entry, chapter_num, position)
    ELSE NoneResult("Chapter number out of range")

\* Lines 975-985: the chapter_num-th document in name order.
OrdinalLocate(docs, entry, chapter_num, position) ==
    OrdinalPick(SortByName(docs), entry, chapter_num, position)

RECURSIVE PageEpub(_, _, _, _)

\* Lines 966-986, for entry i with its pattern searched in parts[1].
PageEpubEntry(ef, content_id, docs, i, chapter_match) ==
    IF Contains(ef[i].path_marker, content_id) /\ chapter_match.found
    THEN IF ~IsIntLit(chapter_match.g1) THEN NoneResult("Invalid content ID format")
         \* group(2) of a pattern with one group: IndexError
         ELSE IF ef[i].chapter_pattern.groups < 2
         THEN NoneResult("Invalid content ID format")
         ELSE OrdinalLocate(docs, i, IntVal(chapter_match.g1),
                            IF chapter_match.g2set THEN IntVal(chapter_match.g2) ELSE 0)
    ELSE PageEpub(ef, content_id, docs, i + 1)

\* Lines 965-986: the loop over the EPUB formats, from entry i.
PageEpub(ef, content_id, docs, i) ==
    IF i > Len(ef) THEN Exhausted
    ELSE PageEpubEntry(ef, content_id, docs, i,
            Search(ef[i].chapter_pattern, SplitSecond(content_id, ef[i].path_marker), FALSE))

\* Lines 903-986: the else branch of the KEPUB loop.
PageOther(chapter_formats, content_id, docs) ==
    IF Contains(FallbackMarker, content_id)
    THEN PageFallback(content_id, docs)
    ELSE PageEpub(chapter_formats.epub_formats, content_id, docs, 1)

PageKepubOrOther(k, chapter_formats, content_id, docs) ==
    IF k # Exhausted THEN k ELSE PageOther(chapter_formats, content_id, docs)

\* Lines 836-993.  Exhausted: no branch assigned chapter, and the test
\* `if not chapter` at line 991 raises UnboundLocalError.
PageLocate(chapter_formats, content_id, docs) ==
    PageKepubOrOther(PageKepub(chapter_formats.kepub_formats, content_id, docs, 1),
                     chapter_formats, content_id, docs)

\* ------------------------------------------------------------------
\* float() and the clamp of ChapterProgress (lines 1152-1162).  A float is
\* [nan, v] with v in tenths; every comparison with nan is false.

Float(v) == [nan |-> FALSE, v |-> v]

NaN == [nan |-> TRUE, v |-> 0]

FloatLess(a, b) == ~a.nan /\ ~b.nan /\ a.v < b.v

\* min(a, b): b when b < a, else a
PyMin(a, b) == IF FloatLess(b, a) THEN b ELSE a

\* max(a, b): b when b > a, else a
PyMax(a, b) == IF FloatLess(a, b) THEN b ELSE a

\* float(text) for a text column: "d.d", "-d.d", "nan"; anything else
\* raises ValueError (ok = FALSE).
ParseFloat(text) ==
    CASE text = <<"nan">> -> [ok |-> TRUE, f |-> NaN]
      [] Len(text) = 3 /\ text[1] \in Digits /\ text[2] = "." /\ text[3] \in Digits
           -> [ok |-> TRUE, f |-> Float(10 * DigitVal(text[1]) + DigitVal(text[3]))]
      [] Len(text) = 4 /\ text[1] = "-" /\ text[2] \in Digits /\ text[3] = "."
                       /\ text[4] \in Digits
           -> [ok |-> TRUE, f |-> Float(0 - (10 * DigitVal(text[2]) + DigitVal(text[4])))]
      [] OTHER -> [ok |-> FALSE, f |-> Float(0)]

\* Lines 1154-1157: float(text), 0.0 on ValueError
FloatOrZero(parsed) == IF parsed.ok THEN parsed.f ELSE Float(0)

\* Lines 1153-1159: the stored value as a float.
ToFloat(ChapterProgress) ==
    IF ChapterProgress.type = "text"
    THEN FloatOrZero(ParseFloat(ChapterProgress.text))
    ELSE Float(ChapterProgress.v)

\* Clamp with the arguments of min and max the other way round: nan passes.
ClampLettingNaN(chapter_progress) == PyMax(PyMin(chapter_progress, Float(10)), Float(0))

\* Line 1162: chapter_progress = max(0.0, min(1.0, chapter_progress))
Clamp(chapter_progress) == PyMax(Float(0), PyMin(Float(10), chapter_progress))

\* ------------------------------------------------------------------
\* get_page_image: page size, crop and the except clause.

\* Line 1082
base_width == 800

\* Line 1083
base_height == 1800

\* reading_settings['zoom_factor'] in thousandths: a stored 0 or NULL reads
\* as 1.0 (`result[2] or 1.0`), and so does the default dictionary.
ZoomFactor(settings) ==
    IF settings.kind = "row" /\ settings.zoom # 0 THEN settings.zoom ELSE 1000

\* Lines 1087-1088: int(base * zoom_factor)
PageSize(zoom_factor) ==
    [bound |-> TRUE,
     page_width  |-> (base_width * zoom_factor) \div 1000,
     page_height |-> (base_height * zoom_factor) \div 1000]

\* page_width and page_height before line 1087 has run.
NoPageSize == [bound |-> FALSE, page_width |-> 0, page_height |-> 0]

Image(width, height, blank, crop_y, total_height) ==
    [tag |-> "image", width |-> width, height |-> height, blank |-> blank,
     crop_y |-> crop_y, total_height |-> total_height]

\* Lines 1270-1274: Image.new('RGB', (page_width, page_height)) reads the
\* two locals; when they are unbound the handler itself raises.
ExceptClause(page) ==
    IF page.bound
    THEN Image(page.page_width, page.page_height, TRUE, 0, page.page_height)
    ELSE Raised("UnboundLocalError: page_width")

\* Lines 1199-1203: int(chapter_progress * total_height)
TargetPosition(chapter_progress, total_height) ==
    (chapter_progress.v * total_height) \div 10

\* max(0, a) and min(a, b) on integers
AtLeastZero(a) == IF a > 0 THEN a ELSE 0

Smaller(a, b) == IF a < b THEN a ELSE b

\* CropY without the upper limit max_crop_y.
CropYUnbounded(chapter_progress, total_height, page_height) ==
    AtLeastZero(TargetPosition(chapter_progress, total_height) - (page_height \div 2))

\* CropY with half the page height rounded up.
CropYHalfRoundedUp(chapter_progress, total_height, page_height) ==
    Smaller(AtLeastZero(TargetPosition(chapter_progress, total_height)
                          - ((page_height + 1) \div 2)),
            AtLeastZero(total_height - page_height))

\* Lines 1214-1219: centre the target, then keep the window inside.
CropY(chapter_progress, total_height, page_height) ==
    Smaller(AtLeastZero(TargetPosition(chapter_progress, total_height)
                          - (page_height \div 2)),
            AtLeastZero(total_height - page_height))

\* Lines 1223-1234: the crop box and the returned triple.
CropResult(page, crop_y, total_height) ==
    Image(page.page_width, Smaller(crop_y + page.page_height, total_height) - crop_y,
          FALSE, crop_y, total_height)

\* ------------------------------------------------------------------ inputs

\* Largest chapter digit written into a content id.
MaxChapter == 6

\* Most document entries in a package.
MaxDocs == 5

Pattern(pre, cls, post, groups, sep) ==
    [pre |-> pre, cls |-> cls, post |-> post, groups |-> groups, sep |-> sep]

Kepub(path_marker, chapter_pattern, has_split, epub_path_split) ==
    [path_marker |-> path_marker, chapter_pattern |-> chapter_pattern,
     has_split |-> has_split, epub_path_split |-> epub_path_split]

Epub(path_marker, chapter_pattern) ==
    [path_marker |-> path_marker, chapter_pattern |-> chapter_pattern]

\* chapter(\d+)\.xhtml, part(\d+)\.xhtml, chapter(\w+)\.xhtml
ChapterDigits == Pattern(<<"chapter">>, "d", <<".xhtml">>, 1, <<>>)
PartDigits    == Pattern(<<"part">>, "d", <<".xhtml">>, 1, <<>>)
ChapterWord   == Pattern(<<"chapter">>, "w", <<".xhtml">>, 1, <<>>)

\* (\d+)(?::(\d+))?, ([-\d]+)(?::(\d+))?, (\w+)(?::(\d+))?, (\d+)
OrdinalOffset == Pattern(<<>>, "d", <<>>, 2, <<":">>)
SignedOffset  == Pattern(<<>>, "m", <<>>, 2, <<":">>)
WordOffset    == Pattern(<<>>, "w", <<>>, 2, <<":">>)
OrdinalOnly   == Pattern(<<>>, "d", <<>>, 1, <<>>)

KepubMarker == <<"kepub.epub", "!!">>

\* chapter_formats.json as the application may find it: the usual file, a
\* file whose first entries do not apply or capture non-numbers, a file with
\* entries that lack a key or a group, and a file without KEPUB formats.
Formats ==
    { [kepub_formats |-> << Kepub(KepubMarker, ChapterDigits, TRUE, <<"!!">>),
                            Kepub(KepubMarker, PartDigits, TRUE, KepubMarker) >>,
       epub_formats  |-> << Epub(<<"epub", "#">>, OrdinalOffset) >>],
      [kepub_formats |-> << Kepub(<<"!!">>, PartDigits, TRUE, <<"!!">>),
                            Kepub(KepubMarker, ChapterWord, TRUE, <<"!!">>) >>,
       epub_formats  |-> << Epub(<<"epub", "!!">>, OrdinalOffset),
                            Epub(<<"epub">>, WordOffset),
                            Epub(<<"#">>, OrdinalOffset) >>],
      [kepub_formats |-> << Kepub(KepubMarker, ChapterDigits, FALSE, <<>>) >>,
       epub_formats  |-> << Epub(<<"#">>, OrdinalOnly) >>],
      [kepub_formats |-> <<>>,
       epub_formats  |-> << Epub(<<"#">>, SignedOffset) >>] }

DigitToken(d) ==
    CASE d = 0 -> "0" [] d = 1 -> "1" [] d = 2 -> "2" [] d = 3 -> "3" [] d = 4 -> "4"
      [] d = 5 -> "5" [] d = 6 -> "6" [] d = 7 -> "7" [] d = 8 -> "8" [] OTHER -> "9"

\* What a content id may carry where the chapter number goes.
Numbers ==
    { <<DigitToken(d)>> : d \in 0..MaxChapter }
        \cup { <<"0", "3">>, <<"x">>, <<"-", "1">>, <<>> }

FewNumbers == { <<"1">>, <<"2">>, <<"3">>, <<"0", "3">>, <<"x">>, <<>> }

ContentIds ==
    { <<"book.">> }
    \cup { <<"book.", "kepub.epub", "!!", "OEBPS/", "chapter">> \o n \o <<".xhtml">> :
              n \in FewNumbers }
    \cup { <<"book.", "kepub.epub", "!!", "OEBPS/", "part">> \o n \o <<".xhtml">> :
              n \in FewNumbers }
    \cup { <<"book.", "epub", "!!", "OEBPS/", "part">> \o n \o <<".xhtml">> :
              n \in FewNumbers }
    \cup { <<"book.", "epub", "!!", "OEBPS/", "part", "1">> }
    \cup { <<"book.", "epub", "#">> \o n : n \in Numbers }
    \cup { <<"book.", "epub", "#">> \o n \o <<":", "4">> : n \in {<<"2">>, <<"x">>} }
    \cup { <<"book.", "epub", "#">> \o n \o <<"OEBPS/", "part", "1", ".xhtml">> :
              n \in {<<"2">>, <<"x">>, <<>>} }

\* Document names, in two package orders.
DocOrders ==
    { << <<"OEBPS/", "chapter", "3", ".xhtml">>, <<"OEBPS/", "part", "2", ".xhtml">>,
         <<"OEBPS/", "part", "x", ".xhtml">>,    <<"OEBPS/", "part", "1", ".xhtml">>,
         <<"OEBPS/", "CHAPTER", "1", ".xhtml">>, <<"OEBPS/", "chapter", "0", "3", ".xhtml">>,
         <<"OEBPS/", "PART", "3", ".xhtml">> >>,
      << <<"OEBPS/", "PART", "3", ".xhtml">>,    <<"OEBPS/", "chapter", "0", "3", ".xhtml">>,
         <<"OEBPS/", "part", "1", ".xhtml">>,    <<"OEBPS/", "chapter", "3", ".xhtml">>,
         <<"OEBPS/", "part", "2", ".xhtml">>,    <<"OEBPS/", "CHAPTER", "x", ".xhtml">>,
         <<"OEBPS/", "part", "0", "3", ".xhtml">> >> }

Packages ==
    { SubSeq(o, 1, IF n < Len(o) THEN n ELSE Len(o)) : o \in DocOrders, n \in 0..MaxDocs }

Stored(type, v, text) == [type |-> type, v |-> v, text |-> text]

\* Bookmark.ChapterProgress as stored: NULL, a REAL (tenths), or TEXT.
StoredProgress ==
    { Stored("null", 0, <<>>),
      Stored("real", 0 - 2, <<>>), Stored("real", 5, <<>>), Stored("real", 17, <<>>),
      Stored("text", 0, <<"1", ".", "7">>), Stored("text", 0, <<"-", "0", ".", "2">>),
      Stored("text", 0, <<"x">>), Stored("text", 0, <<"nan">>) }

\* What the sqlite database does for get_annotation_position.
DbOutcomes == {"no_connect", "query_error", "no_row", "row"}

\* What reading the settings does: no device selected (KeyError at line
\* 1066), connect raises (get_reading_settings then raises from its
\* finally clause), a query raises (None), no settings (None), or a row
\* with ZoomFactor in thousandths.
SettingsOutcomes ==
    { [kind |-> "KeyError", zoom |-> 0], [kind |-> "no_connect", zoom |-> 0],
      [kind |-> "query_error", zoom |-> 0], [kind |-> "none", zoom |-> 0] }
    \cup { [kind |-> "row", zoom |-> z] : z \in {0, 1000, 1001, 1500} }

\* Heights of the bitmap the rasterizer writes.
Heights == {1, 1800, 1801, 2702, 10000}

Pending == [tag |-> "pending"]

PyNone == NoneResult("")

Unbound == [tag |-> "unbound"]

\* ------------------------------------------------------------------
\* The markup compositor: merge_markup_with_page and position_markup.

\* The markup SVG: whether it parses as XML, the width and height its root
\* declares, and a stroke point (x, y) in its own coordinates.
Svg(parses, width, height, x, y) ==
    [parses |-> parses, width |-> width, height |-> height, x |-> x, y |-> y]

\* A PIL image: size, mode, and where the stroke of the overlay shows.
Bitmap(width, height, mode, overlay) ==
    [tag |-> "image", width |-> width, height |-> height, mode |-> mode,
     overlay |-> overlay]

NoOverlay == [drawn |-> FALSE, x |-> 0, y |-> 0]

\* Lines 1326-1333: the root gets viewBox '0 0 page_width page_height' and
\* width and height of the page, so one unit of the markup is one pixel:
\* the stroke shows at (x, y) when that lies on the page and is cut off
\* otherwise.
Overlay(markup, page_width, page_height) ==
    IF markup.x < page_width /\ markup.y < page_height
    THEN [drawn |-> TRUE, x |-> markup.x, y |-> markup.y]
    ELSE NoOverlay

\* Lines 1309-1353: None when the SVG does not parse (ET.fromstring
\* raises), else the page with the overlay, converted to RGB.
merge_markup_with_page(markup, page_image) ==
    IF ~markup.parses THEN NoneResult("Error merging markup with page")
    ELSE Bitmap(page_image.width, page_image.height, "RGB",
                Overlay(markup, page_image.width, page_image.height))

\* Lines 1276-1307: the page itself when the SVG does not parse, else the
\* result of Image.alpha_composite, an RGBA image.
position_markup(markup, page_image) ==
    IF ~markup.parses THEN page_image
    ELSE Bitmap(page_image.width, page_image.height, "RGBA",
                Overlay(markup, page_image.width, page_image.height))

\* Markup files: one that is not XML, one of zero area, one drawn on a
\* 1404x1872 screen, one drawn on a 400x600 canvas.
Markups ==
    { Svg(FALSE, 0, 0, 0, 0), Svg(TRUE, 0, 0, 0, 0),
      Svg(TRUE, 1404, 1872, 1000, 1000), Svg(TRUE, 400, 600, 100, 200) }

\* Page images: the size get_page_image gives at zoom 1.0, the screen's
\* size, and half of it.
PageBitmaps ==
    { Bitmap(base_width, base_height, "RGB", NoOverlay),
      Bitmap(1404, 1872, "RGB", NoOverlay),
      Bitmap(702, 936, "RGB", NoOverlay) }

\* A <id>.jpg that Image.open (line 1711) cannot identify as an image.
NotAnImage == Bitmap(0, 0, "", NoOverlay)

\* A selected markup annotation: whether <id>.svg and <id>.jpg exist, and
\* what they hold.
MarkupItem(svg_exists, jpg_exists, markup, page_image) ==
    [svg_exists |-> svg_exists, jpg_exists |-> jpg_exists, markup |-> markup,
     page_image |-> page_image]

MarkupItems ==
    { MarkupItem(FALSE, TRUE, Svg(FALSE, 0, 0, 0, 0),
                 Bitmap(base_width, base_height, "RGB", NoOverlay)),
      MarkupItem(TRUE, FALSE, Svg(TRUE, 1404, 1872, 1000, 1000),
                 Bitmap(base_width, base_height, "RGB", NoOverlay)) }
    \cup { MarkupItem(TRUE, TRUE, m, b) : m \in Markups, b \in PageBitmaps }
    \cup { MarkupItem(TRUE, TRUE, Svg(TRUE, 1404, 1872, 1000, 1000), NotAnImage) }

\* The selections of markup annotations: one item, or two of which the
\* first cannot be merged.
Selections ==
    { <<a>> : a \in MarkupItems }
    \cup { <<a, b>> : a \in {i \in MarkupItems : ~i.markup.parses \/ i.page_image = NotAnImage},
                      b \in MarkupItems }

\* Lines 1702-1722 for one item: what merge_markup_with_page gives, None
\* when a file is missing.
MergedItem(item) ==
    IF item.svg_exists /\ item.jpg_exists
    THEN merge_markup_with_page(item.markup, item.page_image)
    ELSE NoneResult("file does not exist")

RECURSIVE ExportMarkups(_, _)

\* Lines 1690-1727: the first selected markup that merges is previewed and
\* the export returns True; when none does an error box is shown.  When
\* Image.open raises, the except clause of lines 1837-1839 ends the export.
ExportMarkups(selected_items, i) ==
    IF i > Len(selected_items)
    THEN [stage |-> "done", by |-> "export_to_joplin", item |-> 0,
          merged |-> NoneResult("Could not generate preview image"),
          shown |-> "showerror", selected_items |-> selected_items]
    ELSE IF /\ selected_items[i].svg_exists /\ selected_items[i].jpg_exists
            /\ selected_items[i].page_image = NotAnImage
    THEN [stage |-> "done", by |-> "export_to_joplin", item |-> i,
          merged |-> NoneResult("Failed to export to Joplin"),
          shown |-> "showerror", selected_items |-> selected_items]
    ELSE IF MergedItem(selected_items[i]).tag = "image"
    THEN [stage |-> "done", by |-> "export_to_joplin", item |-> i,
          merged |-> MergedItem(selected_items[i]),
          shown |-> "preview", selected_items |-> selected_items]
    ELSE ExportMarkups(selected_items, i + 1)

\* No markup handled yet.
NoExport ==
    [stage |-> "idle", by |-> "", item |-> 0, merged |-> NoneResult(""),
     shown |-> "", selected_items |-> <<>>]

\* Lines 1258-1268: what the first-page render may return, the rasterizer
\* giving a bitmap no taller than the page_height it is asked for.
FirstPageImages(page) ==
    { Image(page.page_width, h, FALSE, 0, page.page_height) :
        h \in {g \in Heights \cup {page.page_height} : g <= page.page_height} }

\* Lines 1187-1234: what the render of a page inside the chapter may return.
CropImages(page) ==
    { CropResult(page, CropY(Float(v), h, page.page_height), h) :
        v \in 0..10, h \in Heights }

\* ------------------------------------------------------------------
\* What a request holds: the sqlite connection and the temporary directory.

\* Lines 751 and 1358: conn = sqlite3.connect(db_path) has returned; it has
\* not when the call is not reached (KeyError at line 1066) or raises.
Connected(kind) == kind \notin {"KeyError", "no_connect"}

\* conn.close() only where the try block returns.
ClosedAtReturn(kind) == kind \in {"row", "none", "no_row"}

\* Lines 811-813 and 1483-1485: the finally clause closes the connection on
\* every way out of the try block, the except clause included.
ClosedInFinally(kind) == kind \in {"row", "none", "no_row", "query_error"}

\* What is held after get_reading_settings or get_annotation_position.
AfterCall(held, kind) ==
    IF Connected(kind) /\ ~ClosedInFinally(kind) THEN held \cup {"connection"} ELSE held

VARIABLES
    held,              \* the resources the request has acquired and not released
    export,            \* the markup export: what was selected, merged, shown
    chapter_formats,   \* self.chapter_formats
    content_id,        \* the bookmark's ContentID
    db,                \* what the database did for get_annotation_position
    position_result,   \* what get_annotation_position returned
    pc,                \* where get_page_image stands
    position_info,     \* get_page_image's argument
    docs,              \* the document names of the package read
    chapter,           \* local chapter
    page,              \* locals page_width, page_height
    chapter_progress,  \* local chapter_progress, after line 1162
    total_height,      \* local total_height
    image_result,      \* what get_page_image returned or raised
    trace,             \* the stages get_page_image has run
    startup,           \* where __init__ stands, the stages it ran, the box it showed
    connected,         \* the drives of the machine: what is plugged in where
    kobo_devices,      \* self.kobo_devices
    device_paths,      \* self.device_paths
    dropdown,          \* self.device_dropdown: the selected device
    books,             \* self.books_tree: the drive whose books are listed
    timer,             \* the calls of periodic_device_detection scheduled with root.after
    notice,            \* the box the last poll showed
    selection,         \* self.tree.selection(): the selected rows of the annotation list
    button,            \* self.export_button: its text and state
    notes,             \* the notes Joplin holds
    exported,          \* what the last export_to_joplin returned and showed
    files,             \* the temporary files that exist
    requests           \* the renders and exports under way

render_vars == <<held, content_id, db, position_result, pc, position_info, docs,
                 chapter, page, chapter_progress, total_height, image_result, trace>>

device_vars == <<startup, connected, kobo_devices, device_paths, dropdown, books, timer, notice>>

export_vars == <<selection, button, notes, exported>>

temp_vars == <<files, requests>>

vars == <<render_vars, export, chapter_formats, device_vars, export_vars, temp_vars>>

\* The parts of the application a specification leaves out stay as they
\* are before the application has started.
DevicesOff ==
    /\ startup = [stage |-> "off", ran |-> <<>>, shown |-> ""]
    /\ connected = <<>>
    /\ kobo_devices = <<>>
    /\ device_paths = <<>>
    /\ dropdown = ""
    /\ books = <<>>
    /\ timer = 0
    /\ notice = ""

ExportOff ==
    /\ selection = {}
    /\ button = [text |-> "", state |-> ""]
    /\ notes = <<>>
    /\ exported = [returned |-> "", shown |-> <<>>, failed |-> {}, n |-> 0]

TempOff ==
    /\ files = {}
    /\ requests = <<>>

RenderOff ==
    /\ held = {}
    /\ content_id = <<>>
    /\ db = "unused"
    /\ position_result = Pending
    /\ pc = "off"
    /\ position_info = PyNone
    /\ docs = <<>>
    /\ chapter = Unbound
    /\ page = NoPageSize
    /\ chapter_progress = Unbound
    /\ total_height = 0
    /\ image_result = Pending
    /\ trace = <<>>

Init ==
    /\ chapter_formats \in Formats
    /\ content_id \in ContentIds
    /\ export = NoExport
    /\ db = "unused"
    /\ position_result = Pending
    /\ pc = "idle"
    /\ position_info = PyNone
    /\ docs = <<>>
    /\ chapter = Unbound
    /\ page = NoPageSize
    /\ chapter_progress = Unbound
    /\ total_height = 0
    /\ image_result = Pending
    /\ trace = <<>>
    /\ held = {}
    /\ DevicesOff
    /\ ExportOff
    /\ TempOff

\* get_annotation_position(db_path, bookmark_id), lines 1355-1485.
GetAnnotationPosition ==
    /\ pc = "idle"
    /\ export.stage = "idle"
    /\ position_result = Pending
    /\ \E outcome \in DbOutcomes, ChapterProgress \in StoredProgress :
          /\ db' = outcome
          /\ held' = AfterCall(held, outcome)
          /\ position_result' = get_annotation_position(chapter_formats, outcome,
                                                        content_id, ChapterProgress)
    /\ UNCHANGED <<export, chapter_formats, content_id, pc, position_info, docs, chapter, page,
                   chapter_progress, total_height, image_result, trace>>
    /\ UNCHANGED <<device_vars, export_vars, temp_vars>>

\* The call get_page_image(epub_path, content_id, position_info): without
\* position_info, or with the dictionary get_annotation_position returned.
CallGetPageImage ==
    /\ pc = "idle"
    /\ position_result # Pending
    /\ \/ position_info' = PyNone
       \/ position_result.tag = "record" /\ position_info' = position_result
    /\ pc' = "read"
    /\ UNCHANGED <<held, export, chapter_formats, content_id, db, position_result, docs, chapter, page,
                   chapter_progress, total_height, image_result, trace>>
    /\ UNCHANGED <<device_vars, export_vars, temp_vars>>

\* Leave get_page_image with result r after running stage; leaving the with
\* block of line 1051 removes the temporary directory, however it is left.
Leave(r, stage) ==
    /\ pc' = "done"
    /\ image_result' = r
    /\ trace' = Append(trace, stage)
    /\ held' = held \ {"temp_dir"}

\* Line 824: book = epub.read_epub(epub_path); it raises when the file is
\* missing or unreadable (and when the name epub is not bound).
ReadEpub ==
    /\ pc = "read"
    /\ \/ /\ \E d \in Packages : docs' = d
          /\ pc' = "parse"
          /\ trace' = Append(trace, "read_epub")
          /\ UNCHANGED <<image_result, held>>
       \/ /\ Leave(ExceptClause(page), "read_epub")
          /\ UNCHANGED docs
    /\ UNCHANGED <<export, chapter_formats, content_id, db, position_result, position_info, chapter,
                   page, chapter_progress, total_height>>
    /\ UNCHANGED <<device_vars, export_vars, temp_vars>>

\* Lines 895-993: go on with the chapter found, return None, or raise.
Located(r) ==
    CASE r.tag = "chapter" ->
           /\ chapter' = r
           /\ pc' = "html"
           /\ trace' = Append(trace, "locate")
           /\ UNCHANGED <<image_result, held>>
      [] r.tag = "None" ->
           /\ Leave(r, "locate")
           /\ UNCHANGED chapter
      [] OTHER ->
           /\ Leave(ExceptClause(page), "locate")
           /\ UNCHANGED chapter

\* Lines 836-993: parse the content id and find the chapter.
ParseAndLocate ==
    /\ pc = "parse"
    /\ Located(PageLocate(chapter_formats, content_id, docs))
    /\ UNCHANGED <<export, chapter_formats, content_id, db, position_result, position_info, docs,
                   page, chapter_progress, total_height>>
    /\ UNCHANGED <<device_vars, export_vars, temp_vars>>

\* Lines 995-1064: decode the chapter, parse it, collect the styles, open
\* the temporary directory and inline the images; any of these may raise.
BuildHtml ==
    /\ pc = "html"
    /\ \/ /\ pc' = "settings"
          /\ trace' = Append(trace, "html")
          /\ held' = held \cup {"temp_dir"}
          /\ UNCHANGED image_result
       \/ Leave(ExceptClause(page), "html")
    /\ UNCHANGED <<export, chapter_formats, content_id, db, position_result, position_info, docs,
                   chapter, page, chapter_progress, total_height>>
    /\ UNCHANGED <<device_vars, export_vars, temp_vars>>

\* Lines 1065-1088: the reading settings and the page size.
ReadSettings ==
    /\ pc = "settings"
    /\ \E settings \in SettingsOutcomes :
          IF settings.kind \in {"KeyError", "no_connect"}
          THEN /\ Leave(ExceptClause(page), "settings")
               /\ UNCHANGED page
          ELSE /\ page' = PageSize(ZoomFactor(settings))
               /\ pc' = "render"
               /\ trace' = Append(trace, "settings")
               /\ held' = AfterCall(held, settings.kind)
               /\ UNCHANGED image_result
    /\ UNCHANGED <<export, chapter_formats, content_id, db, position_result, position_info, docs,
                   chapter, chapter_progress, total_height>>
    /\ UNCHANGED <<device_vars, export_vars, temp_vars>>

\* Normalise taking a missing ChapterProgress for 0.0 and going on to
\* measure and crop.
NormaliseMissingAsZero ==
    /\ pc = "render"
    /\ chapter_progress' =
          IF position_info.tag = "record" /\ position_info.ChapterProgress.type # "null"
          THEN Clamp(ToFloat(position_info.ChapterProgress))
          ELSE Float(0)
    /\ pc' = "measure"
    /\ UNCHANGED <<held, export, chapter_formats, content_id, db, position_result, position_info, docs,
                   chapter, page, total_height, image_result, trace>>
    /\ UNCHANGED <<device_vars, export_vars, temp_vars>>

\* Lines 1148-1163: with a ChapterProgress, normalise it; else render the
\* first page.
Normalise ==
    /\ pc = "render"
    /\ IF position_info.tag = "record" /\ position_info.ChapterProgress.type # "null"
       THEN /\ chapter_progress' = Clamp(ToFloat(position_info.ChapterProgress))
            /\ pc' = "measure"
       ELSE /\ pc' = "firstpage"
            /\ UNCHANGED chapter_progress
    /\ UNCHANGED <<held, export, chapter_formats, content_id, db, position_result, position_info, docs,
                   chapter, page, total_height, image_result, trace>>
    /\ UNCHANGED <<device_vars, export_vars, temp_vars>>

MeasureRetrying ==
    /\ pc = "measure"
    /\ \/ /\ \E h \in Heights : total_height' = h
          /\ pc' = "crop"
          /\ trace' = Append(trace, "imgkit")
          /\ UNCHANGED <<image_result, held>>
       \/ /\ Len(trace) < 6
          /\ trace' = Append(trace, "imgkit")
          /\ UNCHANGED <<pc, total_height, image_result, held>>
       \/ /\ Leave(ExceptClause(page), "imgkit")
          /\ UNCHANGED total_height
    /\ UNCHANGED <<export, chapter_formats, content_id, db, position_result, position_info, docs,
                   chapter, page, chapter_progress>>
    /\ UNCHANGED <<device_vars, export_vars, temp_vars>>

\* Lines 1165-1190: render the whole chapter and read its height.
Measure ==
    /\ pc = "measure"
    /\ \/ /\ \E h \in Heights : total_height' = h
          /\ pc' = "crop"
          /\ trace' = Append(trace, "imgkit")
          /\ UNCHANGED <<image_result, held>>
       \/ /\ Leave(ExceptClause(page), "imgkit")
          /\ UNCHANGED total_height
    /\ UNCHANGED <<export, chapter_formats, content_id, db, position_result, position_info, docs,
                   chapter, page, chapter_progress>>
    /\ UNCHANGED <<device_vars, export_vars, temp_vars>>

\* Crop not waiting for the chapter render: it starts from "measure" too,
\* with whatever total_height holds.
CropWithoutMeasure ==
    /\ pc \in {"measure", "crop"}
    /\ Leave(CropResult(page, CropY(chapter_progress, total_height, page.page_height),
                        total_height), "crop")
    /\ UNCHANGED <<export, chapter_formats, content_id, db, position_result, position_info, docs,
                   chapter, page, chapter_progress, total_height>>
    /\ UNCHANGED <<device_vars, export_vars, temp_vars>>

\* Lines 1192-1234: crop the page out of the chapter bitmap.
Crop ==
    /\ pc = "crop"
    /\ Leave(CropResult(page, CropY(chapter_progress, total_height, page.page_height),
                        total_height), "crop")
    /\ UNCHANGED <<export, chapter_formats, content_id, db, position_result, position_info, docs,
                   chapter, page, chapter_progress, total_height>>
    /\ UNCHANGED <<device_vars, export_vars, temp_vars>>

\* Lines 1235-1268: render one page, the rasterizer being given page_height
\* as its height; the triple reports page_height as the total height.
FirstPage ==
    /\ pc = "firstpage"
    /\ \/ \E r \in FirstPageImages(page) : Leave(r, "imgkit")
       \/ Leave(ExceptClause(page), "imgkit")
    /\ UNCHANGED <<export, chapter_formats, content_id, db, position_result, position_info, docs,
                   chapter, page, chapter_progress, total_height>>
    /\ UNCHANGED <<device_vars, export_vars, temp_vars>>

\* export_to_joplin with markup annotations selected, lines 1688-1727.
ExportToJoplin ==
    /\ pc = "idle"
    /\ position_result = Pending
    /\ export.stage = "idle"
    /\ \E selected_items \in Selections : export' = ExportMarkups(selected_items, 1)
    /\ UNCHANGED <<held, chapter_formats, content_id, db, position_result, pc, position_info,
                   docs, chapter, page, chapter_progress, total_height, image_result,
                   trace>>
    /\ UNCHANGED <<device_vars, export_vars, temp_vars>>

\* position_markup(markup_svg, page_image, position_info), lines 1276-1307.
PositionMarkup ==
    /\ pc = "idle"
    /\ position_result = Pending
    /\ export.stage = "idle"
    /\ \E markup \in Markups, page_image \in PageBitmaps :
          export' = [stage |-> "done", by |-> "position_markup", item |-> 1,
                     merged |-> position_markup(markup, page_image),
                     shown |-> "",
                     selected_items |-> <<MarkupItem(TRUE, TRUE, markup, page_image)>>]
    /\ UNCHANGED <<held, chapter_formats, content_id, db, position_result, pc, position_info,
                   docs, chapter, page, chapter_progress, total_height, image_result,
                   trace>>
    /\ UNCHANGED <<device_vars, export_vars, temp_vars>>

Next ==
    \/ ExportToJoplin
    \/ PositionMarkup
    \/ GetAnnotationPosition
    \/ CallGetPageImage
    \/ ReadEpub
    \/ ParseAndLocate
    \/ BuildHtml
    \/ ReadSettings
    \/ Normalise
    \/ Measure
    \/ Crop
    \/ FirstPage

Spec == Init /\ [][Next]_vars

\* ------------------------------------------------------------------
\* Startup (__init__, lines 53-165) and the detection of devices.

\* chapter_formats.json as load_chapter_formats may find it: no file, a file
\* that cannot be read or parsed, the file holding {}, the file holding
\* formats.
EmptyDict == [tag |-> "dict"]

FormatFiles ==
    { [kind |-> "missing", json |-> PyNone], [kind |-> "unreadable", json |-> PyNone],
      [kind |-> "json", json |-> EmptyDict] }
    \cup { [kind |-> "json", json |-> f] :
             f \in {g \in Formats : Len(g.epub_formats) = 1 /\ Len(g.kepub_formats) # 1} }

\* load_chapter_formats, lines 1943-1964: None when the file is missing and
\* when reading it raises, else what json.load gives.
load_chapter_formats(file) ==
    IF file.kind \in {"missing", "unreadable"} THEN PyNone ELSE file.json

\* A test that lets the empty dictionary pass.
FalsyOnlyNone(value) == value = PyNone

\* `not self.chapter_formats`: None and the empty dictionary are false.
Falsy(value) == value = PyNone \/ value = EmptyDict

\* The stages of __init__ in the order of the code.
StartupStages ==
    <<"load_chapter_formats", "check_dependencies", "load_config", "check_joplin_service",
      "validate_api_token", "setup_ui", "detect_kobo_devices">>

\* The drive letters, in the order detect_kobo_devices visits them.
Drives == <<"E", "F">>

\* What a drive holds: nothing or no .kobo directory, a Kobo whose volume
\* information cannot be read, a Kobo without a label, a Kobo with its
\* usual label.
Volumes == {"absent", "unreadable", "", "KOBOeReader"}

Machines == [{Drives[i] : i \in 1..Len(Drives)} -> Volumes]

\* Lines 386-388: the volume label, "Kobo Device" when it is empty.
DeviceName(label) == IF label = "" THEN "Kobo Device" ELSE label

\* Lines 381-392: the drive is listed when it has a .kobo directory and
\* GetVolumeInformation does not raise.
Listed(volume) == volume \notin {"absent", "unreadable"}

RECURSIVE DetectedDevices(_, _)

\* Lines 381-392: self.kobo_devices after the loop over the drives from i.
DetectedDevices(machine, i) ==
    IF i > Len(Drives) THEN <<>>
    ELSE IF Listed(machine[Drives[i]])
    THEN <<DeviceName(machine[Drives[i]])>> \o DetectedDevices(machine, i + 1)
    ELSE DetectedDevices(machine, i + 1)

\* The names in a list of devices.
Names(devices) == {devices[i] : i \in 1..Len(devices)}

\* The last drive that holds a listed device of the name.
LastDrive(machine, name) ==
    Drives[CHOOSE i \in 1..Len(Drives) :
              /\ Listed(machine[Drives[i]])
              /\ DeviceName(machine[Drives[i]]) = name
              /\ \A j \in (i + 1)..Len(Drives) :
                    ~(Listed(machine[Drives[j]]) /\ DeviceName(machine[Drives[j]]) = name)]

\* Line 390: self.device_paths[device_name] = drive, a later drive of the
\* same name replacing an earlier one.
DevicePaths(machine) ==
    [name \in Names(DetectedDevices(machine, 1)) |-> LastDrive(machine, name)]

\* load_books, lines 541-591: the list is cleared, and filled with the
\* books of the selected device's database unless the lookup of the path,
\* the connect or the query raises.
load_books(paths, selected_device, db_ok) ==
    IF selected_device \in DOMAIN paths /\ db_ok THEN <<paths[selected_device]>> ELSE <<>>

\* Lines 2003-2008: the box a poll shows.
NoticeComparingLists(previous, current) ==
    IF previous # current
    THEN IF current # <<>> THEN "Device Detected" ELSE "Device Removed"
    ELSE ""

Notice(previous, current) ==
    IF Names(previous) # Names(current)
    THEN IF Names(current) # {} THEN "Device Detected" ELSE "Device Removed"
    ELSE ""

\* What the device actions leave alone.
not_devices == <<render_vars, export, export_vars, temp_vars>>

StartupStops(stage, box) ==
    startup' = [stage |-> "stopped", ran |-> Append(startup.ran, stage), shown |-> box]

StartupGoes(stage, next) ==
    startup' = [stage |-> next, ran |-> Append(startup.ran, stage), shown |-> ""]

\* Lines 57-62: without chapter formats __init__ shows the error, destroys
\* the root window and returns.
LoadChapterFormats ==
    /\ startup.stage = "load_chapter_formats"
    /\ \E file \in FormatFiles :
          /\ chapter_formats' = load_chapter_formats(file)
          /\ IF Falsy(load_chapter_formats(file))
             THEN StartupStops("load_chapter_formats",
                               "Failed to load chapter formats configuration")
             ELSE StartupGoes("load_chapter_formats", "check_dependencies")
    /\ UNCHANGED <<connected, kobo_devices, device_paths, dropdown, books, timer, notice>>
    /\ UNCHANGED not_devices

\* Lines 64-118, 131-148: each check either lets __init__ go on or ends it.
StartupCheck ==
    /\ \E i \in 2..5 :
          /\ startup.stage = StartupStages[i]
          /\ \/ StartupGoes(StartupStages[i], StartupStages[i + 1])
             \/ StartupStops(StartupStages[i], StartupStages[i])
    /\ UNCHANGED <<chapter_formats, connected, kobo_devices, device_paths, dropdown, books,
                   timer, notice>>
    /\ UNCHANGED not_devices

\* Line 154: setup_ui builds the window.
SetupUi ==
    /\ startup.stage = "setup_ui"
    /\ StartupGoes("setup_ui", "detect_kobo_devices")
    /\ dropdown' = ""
    /\ UNCHANGED <<chapter_formats, connected, kobo_devices, device_paths, books, timer,
                   notice>>
    /\ UNCHANGED not_devices

\* detect_kobo_devices, lines 373-400: the lists are rebuilt from the
\* drives; with a device the first one is selected and its books loaded,
\* without one the book list stays as it is.
DetectKoboDevices ==
    /\ kobo_devices' = DetectedDevices(connected, 1)
    /\ device_paths' = DevicePaths(connected)
    /\ IF DetectedDevices(connected, 1) # <<>>
       THEN /\ dropdown' = DetectedDevices(connected, 1)[1]
            /\ \E db_ok \in BOOLEAN :
                  books' = load_books(DevicePaths(connected),
                                      DetectedDevices(connected, 1)[1], db_ok)
       ELSE /\ dropdown' = "No Kobo device detected"
            /\ UNCHANGED books

\* Lines 159-165: the first detection, and the first poll is scheduled.
FirstDetection ==
    /\ startup.stage = "detect_kobo_devices"
    /\ StartupGoes("detect_kobo_devices", "running")
    /\ DetectKoboDevices
    /\ timer' = timer + 1
    /\ UNCHANGED <<chapter_formats, connected, notice>>
    /\ UNCHANGED not_devices

\* periodic_device_detection, lines 1997-2011.
PeriodicDeviceDetection ==
    /\ startup.stage = "running"
    /\ timer > 0
    /\ DetectKoboDevices
    /\ notice' = Notice(kobo_devices, DetectedDevices(connected, 1))
    /\ timer' = (timer - 1) + 1
    /\ UNCHANGED <<chapter_formats, startup, connected>>
    /\ UNCHANGED not_devices

\* The user picks a device in the dropdown: load_books (line 414).
SelectDevice ==
    /\ startup.stage = "running"
    /\ \E name \in Names(kobo_devices), db_ok \in BOOLEAN :
          /\ dropdown' = name
          /\ books' = load_books(device_paths, name, db_ok)
    /\ UNCHANGED <<chapter_formats, startup, connected, kobo_devices, device_paths, timer,
                   notice>>
    /\ UNCHANGED not_devices

\* A device is plugged in, removed or relabelled while the application runs.
Plug ==
    /\ startup.stage = "running"
    /\ \E machine \in Machines :
          /\ \E i \in 1..Len(Drives) :
                \A j \in 1..Len(Drives) : j # i => machine[Drives[j]] = connected[Drives[j]]
          /\ machine # connected
          /\ connected' = machine
    /\ UNCHANGED <<chapter_formats, startup, kobo_devices, device_paths, dropdown, books, timer,
                   notice>>
    /\ UNCHANGED not_devices

DeviceInit ==
    /\ startup = [stage |-> "load_chapter_formats", ran |-> <<>>, shown |-> ""]
    /\ chapter_formats = Unbound
    /\ connected \in Machines
    /\ kobo_devices = <<>>
    /\ device_paths = <<>>
    /\ dropdown = ""
    /\ books = <<>>
    /\ timer = 0
    /\ notice = ""
    /\ export = NoExport
    /\ RenderOff
    /\ ExportOff
    /\ TempOff

DeviceNext ==
    \/ LoadChapterFormats
    \/ StartupCheck
    \/ SetupUi
    \/ FirstDetection
    \/ PeriodicDeviceDetection
    \/ SelectDevice
    \/ Plug

DeviceSpec == DeviceInit /\ [][DeviceNext]_vars

\* ------------------------------------------------------------------
\* The annotation list, the export button and export_to_joplin.

\* A row of the annotation list: values[0], [1], [2] and [5] of the row, and
\* for a markup annotation its files on the device.
Row(book_title, author, text, type, markup_files) ==
    [book_title |-> book_title, author |-> author, text |-> text, type |-> type,
     markup_files |-> markup_files]

NoFiles == MarkupItem(FALSE, FALSE, Svg(FALSE, 0, 0, 0, 0), NotAnImage)

\* The rows of self.tree for the books loaded.
Tree ==
    << Row("Dune", "Herbert", <<"spice">>, "highlight", NoFiles),
       Row("Dune", "Herbert", <<"[Markup annotation]">>, "markup",
           MarkupItem(TRUE, TRUE, Svg(TRUE, 1404, 1872, 1000, 1000),
                      Bitmap(1404, 1872, "RGB", NoOverlay))),
       Row("Emma", "Austen", <<"handsome">>, "highlight", NoFiles),
       Row("Dune", "Herbert", <<"fear">>, "note", NoFiles),
       Row("Emma", "Austen", <<"[Markup annotation]">>, "markup",
           MarkupItem(FALSE, TRUE, Svg(TRUE, 1404, 1872, 1000, 1000),
                      Bitmap(1404, 1872, "RGB", NoOverlay))) >>

RECURSIVE SelectedItems(_, _)

\* self.tree.selection(): the selected rows from row i on, in the order of
\* the list.
SelectedItems(rows, i) ==
    IF i > Len(Tree) THEN <<>>
    ELSE IF i \in rows THEN <<Tree[i]>> \o SelectedItems(rows, i + 1)
    ELSE SelectedItems(rows, i + 1)

Button(text, state) == [text |-> text, state |-> state]

RECURSIVE ButtonAfterRows(_, _, _, _)

\* Lines 1976-1995: the loop over the selected rows from row i on, and the
\* two configure calls after it.
ButtonAfterRowsNeverDisabled(selected_items, i, has_markup, has_other) ==
    IF i > Len(selected_items)
    THEN IF has_markup THEN Button("Preview Image", "normal")
         ELSE Button("Export to Joplin", "normal")
    ELSE ButtonAfterRows(selected_items, i + 1,
                         has_markup \/ selected_items[i].type = "markup",
                         has_other \/ selected_items[i].type # "markup")

ButtonAfterRows(selected_items, i, has_markup, has_other) ==
    IF has_markup /\ has_other THEN Button("Export to Joplin", "disabled")
    ELSE IF i > Len(selected_items)
    THEN IF has_markup THEN Button("Preview Image", "normal")
         ELSE Button("Export to Joplin", "normal")
    ELSE ButtonAfterRows(selected_items, i + 1,
                         has_markup \/ selected_items[i].type = "markup",
                         has_other \/ selected_items[i].type # "markup")

\* update_export_button_text, lines 1966-1995.
update_export_button_text(selected_items) ==
    IF selected_items = <<>> THEN Button("Export to Joplin", "normal")
    ELSE ButtonAfterRows(selected_items, 1, FALSE, FALSE)

\* self.config['notebook_id']
notebook_id == "nb"

Note(id, parent_id, title, body) ==
    [id |-> id, parent_id |-> parent_id, title |-> title, body |-> body]

\* Line 1801: f"{book_title} - {author}"
note_title(book_title, author) == <<book_title, " - ", author>>

\* What Joplin may hold before an export: nothing; the book's note in the
\* configured notebook, its body ending in whitespace; the book's note in
\* another notebook and in the configured one; a note of another title in
\* the configured notebook whose body names the book; the book's note in
\* another notebook only.
Notebooks ==
    { <<>>,
      << Note(1, notebook_id, note_title("Dune", "Herbert"), <<"old", " ", "\n">>) >>,
      << Note(1, "other", note_title("Dune", "Herbert"), <<"kept">>),
         Note(2, notebook_id, note_title("Dune", "Herbert"), <<"old">>) >>,
      << Note(1, notebook_id, <<"Reading list">>, <<"next: ", "Dune", " - ", "Herbert">>) >>,
      << Note(1, "other", note_title("Dune", "Herbert"), <<"kept">>) >> }

\* joplin.search_all(query=..., type_="note"): a search, not a lookup by
\* title; a note is found when the query is its title or is in its body.
Found(note, query) == note.title = query \/ Contains(query, note.body)

RECURSIVE ExistingNote(_, _, _)

\* Lines 1802-1809: the first note found that is in the configured
\* notebook, as its index in notes; 0 when there is none.
ExistingNote(joplin, query, i) ==
    IF i > Len(joplin) THEN 0
    ELSE IF Found(joplin[i], query) /\ joplin[i].parent_id = notebook_id THEN i
    ELSE ExistingNote(joplin, query, i + 1)

Whitespace == {" ", "\n"}

RECURSIVE RStrip(_)

\* str.rstrip()
RStrip(body) ==
    IF body # <<>> /\ body[Len(body)] \in Whitespace
    THEN RStrip(SubSeq(body, 1, Len(body) - 1))
    ELSE body

\* Lines 1786-1794: the template with the annotation's type and text.
Formatted(row) == <<row.type, ": ">> \o row.text \o <<"\n">>

RECURSIVE NoteContent(_, _, _, _)

\* Lines 1774-1798: ''.join(note_content) for the book, from row i on.
NoteContent(selected_items, book_title, author, i) ==
    IF i > Len(selected_items) THEN <<>>
    ELSE IF /\ selected_items[i].book_title = book_title
            /\ selected_items[i].author = author
            /\ selected_items[i].type # "markup"
    THEN Formatted(selected_items[i]) \o NoteContent(selected_items, book_title, author, i + 1)
    ELSE NoteContent(selected_items, book_title, author, i + 1)

RECURSIVE BookKeys(_, _, _)

\* Lines 1748-1771: the keys of annotations_by_book in the order they were
\* inserted, from row i on; seen holds the keys inserted before.
BookKeys(selected_items, i, seen) ==
    IF i > Len(selected_items) THEN <<>>
    ELSE IF \/ selected_items[i].type = "markup"
            \/ <<selected_items[i].book_title, selected_items[i].author>> \in seen
    THEN BookKeys(selected_items, i + 1, seen)
    ELSE << <<selected_items[i].book_title, selected_items[i].author>> >>
            \o BookKeys(selected_items, i + 1,
                        seen \cup { <<selected_items[i].book_title, selected_items[i].author>> })

\* Lines 1811-1829: the note found is modified, or a note is added.
NoteWritten(joplin, existing, title, content) ==
    IF existing # 0
    THEN [joplin EXCEPT ![existing].body = RStrip(@) \o content]
    ELSE Append(joplin, Note(Len(joplin) + 1, notebook_id, title, content))

Outcome(returned, shown, failed, n) ==
    [returned |-> returned, shown |-> shown, failed |-> failed, n |-> n]

RECURSIVE ExportBooks(_, _, _, _, _, _)

\* Lines 1774-1835: one note per key from key k on; raising is the set of
\* keys for which add_note or modify_note raises.  Then the success box.
ExportBooks(joplin, selected_items, keys, k, raising, done) ==
    IF k > Len(keys)
    THEN [notes |-> joplin,
          exported |-> Outcome("True", Append(done.shown, "Annotations exported successfully!"),
                               done.failed, done.n)]
    ELSE IF k \in raising
    THEN ExportBooks(joplin, selected_items, keys, k + 1, raising,
                     Outcome(done.returned, Append(done.shown, "Failed to export note"),
                             done.failed \cup {keys[k]}, done.n))
    ELSE ExportBooks(NoteWritten(joplin,
                                 ExistingNote(joplin, note_title(keys[k][1], keys[k][2]), 1),
                                 note_title(keys[k][1], keys[k][2]),
                                 NoteContent(selected_items, keys[k][1], keys[k][2], 1)),
                     selected_items, keys, k + 1, raising, done)

RECURSIVE MarkupFiles(_, _)

\* The files of the selected markup rows, from row i on.
MarkupFiles(selected_items, i) ==
    IF i > Len(selected_items) THEN <<>>
    ELSE IF selected_items[i].type = "markup"
    THEN <<selected_items[i].markup_files>> \o MarkupFiles(selected_items, i + 1)
    ELSE MarkupFiles(selected_items, i + 1)

\* Exports one run of the application may make.
MaxExports == 2

\* What the export actions leave alone.
not_export == <<render_vars, chapter_formats, device_vars, temp_vars>>

\* The user changes the selection of the annotation list; the
\* <<TreeviewSelect>> binding (line 521) runs update_export_button_text.
SelectionChange ==
    /\ startup.stage = "running"
    /\ \E rows \in SUBSET (1..Len(Tree)) :
          /\ rows # selection
          /\ selection' = rows
          /\ button' = update_export_button_text(SelectedItems(rows, 1))
    /\ UNCHANGED <<notes, exported, export>>
    /\ UNCHANGED not_export

\* export_to_joplin ends before it reaches Joplin: lines 1668-1677 (nothing
\* configured, nothing selected) and 1729-1744 (highlight_colors.json or the
\* template cannot be read), or search_all raises (lines 1837-1839).
ExportRefused ==
    /\ startup.stage = "running"
    /\ button.state = "normal"
    /\ exported.n < MaxExports
    /\ \E box \in {"Joplin API token or notebook ID not configured",
                   "Failed to load highlight colors", "Failed to load template",
                   "Failed to export to Joplin"} :
          /\ box # "Joplin API token or notebook ID not configured"
                => /\ selection # {}
                   /\ MarkupFiles(SelectedItems(selection, 1), 1) = <<>>
          /\ exported' = Outcome("False", <<box>>, {}, exported.n + 1)
    /\ UNCHANGED <<selection, button, notes, export>>
    /\ UNCHANGED not_export

\* export_to_joplin with nothing selected, lines 1674-1677.
ExportNothing ==
    /\ startup.stage = "running"
    /\ button.state = "normal"
    /\ exported.n < MaxExports
    /\ selection = {}
    /\ exported' = Outcome("False", <<"Please select annotations to export">>, {},
                           exported.n + 1)
    /\ UNCHANGED <<selection, button, notes, export>>
    /\ UNCHANGED not_export

\* export_to_joplin with a markup row selected, lines 1679-1727.
ExportPreview ==
    /\ startup.stage = "running"
    /\ button.state = "normal"
    /\ exported.n < MaxExports
    /\ MarkupFiles(SelectedItems(selection, 1), 1) # <<>>
    /\ export' = ExportMarkups(MarkupFiles(SelectedItems(selection, 1), 1), 1)
    /\ exported' = Outcome(IF export'.shown = "preview" THEN "True" ELSE "False",
                           <<export'.shown>>, {}, exported.n + 1)
    /\ UNCHANGED <<selection, button, notes>>
    /\ UNCHANGED not_export

\* export_to_joplin with rows selected and no markup among them, lines
\* 1746-1835.
ExportNotes ==
    /\ startup.stage = "running"
    /\ button.state = "normal"
    /\ exported.n < MaxExports
    /\ selection # {}
    /\ MarkupFiles(SelectedItems(selection, 1), 1) = <<>>
    /\ \E raising \in SUBSET (1..2) :
          /\ \A k \in raising : k <= Len(BookKeys(SelectedItems(selection, 1), 1, {}))
          /\ notes' = ExportBooks(notes, SelectedItems(selection, 1),
                                  BookKeys(SelectedItems(selection, 1), 1, {}), 1, raising,
                                  Outcome("True", <<>>, {}, exported.n + 1)).notes
          /\ exported' = ExportBooks(notes, SelectedItems(selection, 1),
                                     BookKeys(SelectedItems(selection, 1), 1, {}), 1, raising,
                                     Outcome("True", <<>>, {}, exported.n + 1)).exported
    /\ UNCHANGED <<selection, button, export>>
    /\ UNCHANGED not_export

\* The application is running with one Kobo connected and its books
\* listed; nothing is selected.
ExportInit ==
    /\ startup = [stage |-> "running", ran |-> StartupStages, shown |-> ""]
    /\ chapter_formats = CHOOSE f \in Formats : f.kepub_formats = <<>>
    /\ connected = [d \in {Drives[i] : i \in 1..Len(Drives)} |->
                       IF d = Drives[1] THEN "KOBOeReader" ELSE "absent"]
    /\ kobo_devices = DetectedDevices(connected, 1)
    /\ device_paths = DevicePaths(connected)
    /\ dropdown = "KOBOeReader"
    /\ books = <<Drives[1]>>
    /\ timer = 1
    /\ notice = ""
    /\ selection = {}
    /\ button = Button("Export to Joplin", "normal")
    /\ notes \in Notebooks
    /\ exported = Outcome("", <<>>, {}, 0)
    /\ export = NoExport
    /\ RenderOff
    /\ TempOff

ExportNext ==
    \/ SelectionChange
    \/ ExportRefused
    \/ ExportNothing
    \/ ExportPreview
    \/ ExportNotes

ExportSpec == ExportInit /\ [][ExportNext]_vars

\* ------------------------------------------------------------------
\* The temporary files of two requests under way at the same time: renders
\* (get_page_image, lines 1050-1268) and exports of a preview
\* (export_and_close, lines 1554-1615).  A path is a sequence of names, a
\* name a sequence of pieces.

\* The two requests and their bookmark ids, which differ.
Requesters == 1..2

BookmarkId(r) == IF r = 1 THEN "b1" ELSE "b2"

\* tempfile.gettempdir()
TempRoot == << <<"tmp">> >>

\* The names tempfile.TemporaryDirectory may draw.
DirNames == { <<"tmp", "a">>, <<"tmp", "b">> }

\* Lines 1178-1180 and 1250-1252: os.path.join(temp_dir, ...)
HtmlPath(temp_dir) == Append(temp_dir, <<"page.html">>)

PngPath(temp_dir, kind) ==
    Append(temp_dir, IF kind = "chapter" THEN <<"full_page.png">> ELSE <<"page.png">>)

\* One preview file for all bookmarks.
PreviewPathShared(bookmark_id) == Append(TempRoot, <<"preview", ".png">>)

\* Line 1584: os.path.join(tempfile.gettempdir(), f"preview_{bookmark_id}.png")
PreviewPath(bookmark_id) == Append(TempRoot, <<"preview_", bookmark_id, ".png">>)

\* The path is the directory or lies in it.
Under(dir, path) == Len(path) >= Len(dir) /\ SubSeq(path, 1, Len(dir)) = dir

NoRequest == [kind |-> "", pc |-> "new", temp_dir |-> <<>>, owns |-> {}]

\* What the requests leave alone.
not_temp == <<render_vars, export, chapter_formats, device_vars, export_vars>>

\* Request r has created or overwritten the path and goes on at pc.
Creates(r, path, next) ==
    /\ files' = files \cup {path}
    /\ requests' = [requests EXCEPT ![r].owns = @ \cup {path}, ![r].pc = next]

\* Request r goes on at pc, the files as they are.
Skips(r, next) ==
    /\ requests' = [requests EXCEPT ![r].pc = next]
    /\ UNCHANGED files

\* A render with a chapter progress, a render of the first page, or an
\* export of a preview begins.
Begin ==
    /\ \E r \in Requesters, kind \in {"chapter", "firstpage", "preview"} :
          /\ requests[r].pc = "new"
          /\ requests' = [requests EXCEPT ![r].kind = kind,
                             ![r].pc = IF kind = "preview" THEN "save" ELSE "mkdtemp"]
    /\ UNCHANGED files
    /\ UNCHANGED not_temp

\* Line 1051: tempfile.TemporaryDirectory() makes a directory of a name
\* that does not exist.
MakeTempDir ==
    /\ \E r \in Requesters, name \in DirNames :
          /\ requests[r].pc = "mkdtemp"
          /\ Append(TempRoot, name) \notin files
          /\ files' = files \cup {Append(TempRoot, name)}
          /\ requests' = [requests EXCEPT ![r].temp_dir = Append(TempRoot, name),
                             ![r].owns = @ \cup {Append(TempRoot, name)}, ![r].pc = "html"]
    /\ UNCHANGED not_temp

\* Lines 1183-1184 and 1255-1256: the HTML is written, unless an earlier
\* step in the with block or the write raises.
WriteHtml ==
    /\ \E r \in Requesters :
          /\ requests[r].pc = "html"
          /\ \/ Creates(r, HtmlPath(requests[r].temp_dir), "png")
             \/ Skips(r, "exit")
    /\ UNCHANGED not_temp

\* Lines 1187 and 1259: imgkit writes the bitmap, or fails.
WritePng ==
    /\ \E r \in Requesters :
          /\ requests[r].pc = "png"
          /\ \/ Creates(r, PngPath(requests[r].temp_dir, requests[r].kind), "unlink")
             \/ Skips(r, "exit")
    /\ UNCHANGED not_temp

\* Lines 1229-1232 and 1263-1266: os.unlink of the bitmap; a failure is
\* only printed.
UnlinkPng ==
    /\ \E r \in Requesters :
          /\ requests[r].pc = "unlink"
          /\ \/ /\ files' = files \ {PngPath(requests[r].temp_dir, requests[r].kind)}
                /\ requests' = [requests EXCEPT
                                   ![r].owns = @ \ {PngPath(requests[r].temp_dir,
                                                            requests[r].kind)},
                                   ![r].pc = "exit"]
             \/ Skips(r, "exit")
    /\ UNCHANGED not_temp

\* Leaving the with block of line 1051 removes the directory and all in it.
LeaveWith ==
    /\ \E r \in Requesters :
          /\ requests[r].pc = "exit"
          /\ files' = {path \in files : ~Under(requests[r].temp_dir, path)}
          /\ requests' = [requests EXCEPT
                             ![r].owns = {path \in @ : ~Under(requests[r].temp_dir, path)},
                             ![r].pc = "done"]
    /\ UNCHANGED not_temp

\* Lines 1584-1586: image.save(temp_path), unless it or the database query
\* before it raises.
SavePreview ==
    /\ \E r \in Requesters :
          /\ requests[r].pc = "save"
          /\ \/ Creates(r, PreviewPath(BookmarkId(r)), "remove")
             \/ Skips(r, "done")
    /\ UNCHANGED not_temp

\* Lines 1611-1615: the finally clause removes temp_path when it exists.
RemovePreview ==
    /\ \E r \in Requesters :
          /\ requests[r].pc = "remove"
          /\ files' = files \ {PreviewPath(BookmarkId(r))}
          /\ requests' = [requests EXCEPT ![r].owns = @ \ {PreviewPath(BookmarkId(r))},
                                          ![r].pc = "done"]
    /\ UNCHANGED not_temp

\* A request that is done makes room for the next of the same bookmark.
Again ==
    /\ \E r \in Requesters :
          /\ requests[r].pc = "done"
          /\ requests' = [requests EXCEPT ![r] = NoRequest]
    /\ UNCHANGED files
    /\ UNCHANGED not_temp

TempInit ==
    /\ files = {TempRoot}
    /\ requests = [r \in Requesters |-> NoRequest]
    /\ startup = [stage |-> "running", ran |-> StartupStages, shown |-> ""]
    /\ chapter_formats = CHOOSE f \in Formats : f.kepub_formats = <<>>
    /\ connected = [d \in {Drives[i] : i \in 1..Len(Drives)} |->
                       IF d = Drives[1] THEN "KOBOeReader" ELSE "absent"]
    /\ kobo_devices = DetectedDevices(connected, 1)
    /\ device_paths = DevicePaths(connected)
    /\ dropdown = "KOBOeReader"
    /\ books = <<Drives[1]>>
    /\ timer = 1
    /\ notice = ""
    /\ export = NoExport
    /\ RenderOff
    /\ ExportOff

TempNext ==
    \/ Begin
    \/ MakeTempDir
    \/ WriteHtml
    \/ WritePng
    \/ UnlinkPng
    \/ LeaveWith
    \/ SavePreview
    \/ RemovePreview
    \/ Again

TempSpec == TempInit /\ [][TempNext]_vars

\* ------------------------------------------------------------------
\* Statements about the decoders, the locator and the render pipeline.

\* Entry i of the KEPUB list applies to the content id: its marker is in
\* the id and its pattern matches the id.
KepubMatches(i) ==
    /\ Contains(chapter_formats.kepub_formats[i].path_marker, content_id)
    /\ Search(chapter_formats.kepub_formats[i].chapter_pattern, content_id, FALSE).found

\* What entry i of the EPUB list searches: the text after its marker.
EpubText(i) == SplitSecond(content_id, chapter_formats.epub_formats[i].path_marker)

\* Entry i of the EPUB list applies to the content id.
EpubMatches(i) ==
    /\ Contains(chapter_formats.epub_formats[i].path_marker, content_id)
    /\ Search(chapter_formats.epub_formats[i].chapter_pattern, EpubText(i), FALSE).found

\* The hardcoded pattern OEBPS/part<N>.xhtml applies to the content id.
FallbackMatches ==
    /\ Contains(FallbackMarker, content_id)
    /\ Search(FallbackPattern, content_id, FALSE).found

KepubMatching == {i \in 1..Len(chapter_formats.kepub_formats) : KepubMatches(i)}

EpubMatching == {i \in 1..Len(chapter_formats.epub_formats) : EpubMatches(i)}

Least(S) == CHOOSE i \in S : \A j \in S : i <= j

\* get_page_image has run its parse of the content id and its search.
LocateRan == Len(trace) >= 2

\* get_page_image ended in its parse of the content id or its search.
LocateLeft == pc = "done" /\ trace = <<"read_epub", "locate">>

\* C1 (as claimed): get_page_image never lets an exception escape; a package
\* that cannot be read gives the blank placeholder of base_width x
\* base_height (zoom factor 1.0).
C1_NeverRaises ==
    /\ image_result.tag # "raised"
    /\ (pc = "done" /\ trace = <<"read_epub">>)
          => image_result = Image(base_width, base_height, TRUE, 0, base_height)

\* C2 (as claimed): in both decoders the KEPUB list decides before the EPUB
\* list and the EPUB list before the fallback pattern: a result of the EPUB
\* kind means no KEPUB entry applies, a result of the fallback kind means
\* no KEPUB and no EPUB entry applies, and a listed entry decides only when
\* no earlier entry of its list applies.
C2_StrictOrder ==
    /\ position_result.tag = "record" =>
          /\ position_result.kind = "KEPUB" =>
                \A j \in KepubMatching : position_result.entry <= j
          /\ position_result.kind = "EPUB" =>
                /\ KepubMatching = {}
                /\ \A j \in EpubMatching : position_result.entry <= j
          /\ position_result.kind = "fallback" =>
                KepubMatching = {} /\ EpubMatching = {}
    /\ chapter.tag = "chapter" =>
          /\ chapter.kind = "KEPUB" => \A j \in KepubMatching : chapter.entry <= j
          /\ chapter.kind = "EPUB" =>
                /\ KepubMatching = {}
                /\ \A j \in EpubMatching : chapter.entry <= j
          /\ chapter.kind = "fallback" => KepubMatching = {} /\ EpubMatching = {}

\* The KEPUB entries whose marker is in the content id.
KepubMarked ==
    {i \in 1..Len(chapter_formats.kepub_formats) :
        Contains(chapter_formats.kepub_formats[i].path_marker, content_id)}

\* What the pattern of KEPUB entry i captures in the content id.
KepubCapture(i) ==
    Search(chapter_formats.kepub_formats[i].chapter_pattern, content_id, FALSE)

\* The EPUB entries whose marker is in the content id.
EpubMarked ==
    {i \in 1..Len(chapter_formats.epub_formats) :
        Contains(chapter_formats.epub_formats[i].path_marker, content_id)}

\* What the pattern of EPUB entry i captures after the marker.
EpubCapture(i) ==
    Search(chapter_formats.epub_formats[i].chapter_pattern, EpubText(i), FALSE)

C4_EpubDecode ==
    (/\ KepubMatching = {}
     /\ EpubMarked # {}
     /\ EpubCapture(Least(EpubMarked)).found
     /\ IsIntLit(EpubCapture(Least(EpubMarked)).g1)
     /\ chapter_formats.epub_formats[Least(EpubMarked)].chapter_pattern.groups = 2)
       => /\ db = "row" =>
               /\ position_result.tag = "record"
               /\ position_result.kind = "EPUB"
               /\ position_result.entry = Least(EpubMarked)
               /\ position_result.chapter_num = IntVal(EpubCapture(Least(EpubMarked)).g1)
               /\ position_result.position =
                     IF EpubCapture(Least(EpubMarked)).g2set
                     THEN IntVal(EpubCapture(Least(EpubMarked)).g2) ELSE 0
               /\ position_result.epub_path =
                     SplitHead(content_id,
                               chapter_formats.epub_formats[Least(EpubMarked)].path_marker)
          /\ chapter.tag = "chapter" =>
               /\ chapter.chapter_num = IntVal(EpubCapture(Least(EpubMarked)).g1)
               /\ chapter.position =
                     IF EpubCapture(Least(EpubMarked)).g2set
                     THEN IntVal(EpubCapture(Least(EpubMarked)).g2) ELSE 0

\* The content id matches no KEPUB entry, no EPUB entry and not the
\* fallback pattern.
Unrecognised == KepubMatching = {} /\ EpubMatching = {} /\ ~FallbackMatches

\* C5 (as claimed): an unrecognised content id makes each decoder return
\* None: no record, no chapter, no exception.
C5_UnrecognisedIsNone ==
    Unrecognised =>
       /\ db = "row" => position_result.tag = "None"
       /\ LocateRan => LocateLeft /\ image_result.tag = "None"

C7_FailureIsNone ==
    (LocateRan /\ chapter.tag # "chapter")
       => /\ LocateLeft
          /\ image_result.tag = "None"
          /\ \A k \in 1..Len(trace) : trace[k] \notin {"imgkit", "crop"}

\* The chapter number the KEPUB or the fallback branch of get_page_image
\* has read from the content id.
NumberSought ==
    IF KepubMatching # {}
    THEN IntVal(KepubCapture(Least(KepubMatching)).g1)
    ELSE IntVal(Search(FallbackPattern, content_id, FALSE).g1)

\* The number n is captured in the document name by a chapter pattern of
\* the kind, compared without regard to case.
NameHasNumber(kind, name, n) ==
    IF kind = "KEPUB"
    THEN \E i \in 1..Len(chapter_formats.kepub_formats) :
            /\ Search(chapter_formats.kepub_formats[i].chapter_pattern, name, TRUE).found
            /\ IsIntLit(Search(chapter_formats.kepub_formats[i].chapter_pattern,
                               name, TRUE).g1)
            /\ IntVal(Search(chapter_formats.kepub_formats[i].chapter_pattern,
                             name, TRUE).g1) = n
    ELSE /\ Search(FallbackPattern, name, TRUE).found
         /\ IntVal(Search(FallbackPattern, name, TRUE).g1) = n

\* C8 (as claimed): for the KEPUB and the fallback kind the chapter found
\* is a document whose name, matched without regard to case, captures the
\* chapter number, and the search reports "not found" only when no
\* document of the package captures it.
C8_LocateByNumber ==
    /\ (chapter.tag = "chapter" /\ chapter.kind \in {"KEPUB", "fallback"})
          => /\ \E j \in 1..Len(docs) : docs[j] = chapter.name
             /\ NameHasNumber(chapter.kind, chapter.name, chapter.chapter_num)
    /\ (LocateLeft /\ image_result = NoneResult("Could not find chapter"))
          => \A j \in 1..Len(docs) : ~NameHasNumber("KEPUB", docs[j], NumberSought)
    /\ (LocateLeft /\ image_result = NoneResult("Could not find OEBPS chapter"))
          => \A j \in 1..Len(docs) : ~NameHasNumber("fallback", docs[j], NumberSought)

\* get_page_image decides by the EPUB list: no KEPUB entry applies, the
\* content id has no 'OEBPS/part', and the first EPUB entry that applies
\* captures an integer and defines both groups.
OrdinalDecides ==
    /\ KepubMatching = {}
    /\ ~Contains(FallbackMarker, content_id)
    /\ EpubMatching # {}
    /\ IsIntLit(EpubCapture(Least(EpubMatching)).g1)
    /\ chapter_formats.epub_formats[Least(EpubMatching)].chapter_pattern.groups = 2

OrdinalNumber == IntVal(EpubCapture(Least(EpubMatching)).g1)

\* How many documents of the package stand before name in str order.
NamesBefore(name) == Cardinality({j \in 1..Len(docs) : LexLess(docs[j], name)})

FiveDocs ==
    << <<"OEBPS/", "chapter", "3", ".xhtml">>, <<"OEBPS/", "part", "2", ".xhtml">>,
       <<"OEBPS/", "part", "x", ".xhtml">>,    <<"OEBPS/", "part", "1", ".xhtml">>,
       <<"OEBPS/", "CHAPTER", "1", ".xhtml">> >>

\* C9: for the EPUB (ordinal) kind the chapter is the document with exactly
\* chapter_num - 1 documents before it in name order, and for every
\* chapter_num with chapter_num - 1 outside [0, len) the search returns
\* None ("out of range") and selects nothing.  Among five documents,
\* chapter 3 is the third by name and chapter 6 is out of range.
C9_OrdinalLocate ==
    /\ (LocateRan /\ OrdinalDecides) =>
          IF 1 <= OrdinalNumber /\ OrdinalNumber <= Len(docs)
          THEN /\ chapter.tag = "chapter"
               /\ chapter.kind = "EPUB"
               /\ chapter.chapter_num = OrdinalNumber
               /\ \E j \in 1..Len(docs) : docs[j] = chapter.name
               /\ NamesBefore(chapter.name) = OrdinalNumber - 1
          ELSE /\ chapter = Unbound
               /\ LocateLeft
               /\ image_result = NoneResult("Chapter number out of range")
    /\ (/\ LocateRan
        /\ docs = FiveDocs
        /\ chapter_formats.kepub_formats = <<>>
        /\ content_id = <<"book.", "epub", "#", "3">>)
          => chapter.tag = "chapter" /\ chapter.name = <<"OEBPS/", "part", "1", ".xhtml">>
    /\ (/\ LocateRan
        /\ docs = FiveDocs
        /\ chapter_formats.kepub_formats = <<>>
        /\ content_id = <<"book.", "epub", "#", "6">>)
          => chapter = Unbound /\ image_result = NoneResult("Chapter number out of range")

\* C9 happens: chapter 3 of five documents found.
C9_Witness ==
    /\ LocateRan
    /\ OrdinalDecides
    /\ docs = FiveDocs
    /\ OrdinalNumber = 3
    /\ chapter.tag = "chapter"
    /\ chapter.name = <<"OEBPS/", "part", "1", ".xhtml">>

\* C10: the chapter_progress the crop works with is a number in [0.0, 1.0]
\* (tenths: 0..10): a stored -0.2 has become 0.0 and a stored 1.7 has
\* become 1.0, as a REAL and as TEXT, and the crop never runs without it.
C10_ProgressClamped ==
    /\ chapter_progress # Unbound =>
          /\ ~chapter_progress.nan
          /\ 0 <= chapter_progress.v /\ chapter_progress.v <= 10
          /\ position_info.tag = "record"
          /\ position_info.ChapterProgress
                \in {Stored("real", 0 - 2, <<>>), Stored("text", 0, <<"-", "0", ".", "2">>)}
                => chapter_progress = Float(0)
          /\ position_info.ChapterProgress
                \in {Stored("real", 17, <<>>), Stored("text", 0, <<"1", ".", "7">>)}
                => chapter_progress = Float(10)
          /\ position_info.ChapterProgress = Stored("real", 5, <<>>)
                => chapter_progress = Float(5)
    /\ (pc \in {"measure", "crop"} \/ \E k \in 1..Len(trace) : trace[k] = "crop")
          => chapter_progress # Unbound

\* C10 happens: a stored -0.2 reaches the crop as 0.0.
C10_Witness ==
    /\ pc = "crop"
    /\ position_info.tag = "record"
    /\ position_info.ChapterProgress = Stored("real", 0 - 2, <<>>)
    /\ chapter_progress = Float(0)

\* get_page_image has returned what the crop made.
Cropped == pc = "done" /\ trace[Len(trace)] = "crop"

\* C11: the crop top is never negative and never beyond
\* max(0, total_height - page_height): it is 0 when the chapter is no
\* taller than the page, and else the window of page_height rows ends
\* inside the chapter, and the cropped bitmap is page_height tall.
C11_CropInsideChapter ==
    Cropped =>
       /\ 0 <= image_result.crop_y
       /\ image_result.total_height = total_height
       /\ IF total_height <= page.page_height
          THEN /\ image_result.crop_y = 0
               /\ image_result.height = total_height
          ELSE /\ image_result.crop_y + page.page_height <= total_height
               /\ image_result.height = page.page_height

\* C11 happens: at progress 1.0 the window is held at the chapter's end.
C11_Witness ==
    /\ Cropped
    /\ chapter_progress = Float(10)
    /\ total_height = 10000
    /\ page.page_height = 1800
    /\ image_result.crop_y = 8200

\* C12: the crop top is floor(progress * total_height) - page_height // 2
\* held within [0, max(0, total_height - page_height)]; where neither limit
\* binds, page_height // 2 rows of the window lie above the target row, and
\* the rows below it are as many or one fewer.
C12_CropCentred ==
    Cropped =>
       LET target == (chapter_progress.v * total_height) \div 10
           raw    == target - page.page_height \div 2
           top    == IF total_height > page.page_height
                     THEN total_height - page.page_height ELSE 0
       IN  /\ raw < 0 => image_result.crop_y = 0
           /\ raw > top => image_result.crop_y = top
           /\ (0 <= raw /\ raw <= top) =>
                 /\ image_result.crop_y = raw
                 /\ target - image_result.crop_y = page.page_height \div 2
                 /\ (image_result.crop_y + page.page_height - 1) - target
                       \in {page.page_height \div 2, page.page_height \div 2 - 1}

\* C12 happens: an odd page height, progress 0.5, neither limit binding.
C12_Witness ==
    /\ Cropped
    /\ page.page_height = 1801
    /\ chapter_progress = Float(5)
    /\ total_height = 10000
    /\ image_result.crop_y = 4100

\* C13: without a ChapterProgress (no position info, or NULL stored) the
\* page is rendered at page_height from the chapter's top, nothing is
\* cropped, and the reported crop offset is 0.
C13_NoProgressFirstPage ==
    (pc = "done" /\ image_result.tag = "image" /\ ~image_result.blank
       /\ (position_info.tag # "record" \/ position_info.ChapterProgress.type = "null"))
       => /\ image_result.crop_y = 0
          /\ image_result.height <= page.page_height
          /\ image_result.width = page.page_width
          /\ chapter_progress = Unbound
          /\ \A k \in 1..Len(trace) : trace[k] # "crop"

\* C13 happens: a NULL ChapterProgress, first page returned.
C13_Witness ==
    /\ pc = "done"
    /\ position_info.tag = "record"
    /\ position_info.ChapterProgress.type = "null"
    /\ image_result.tag = "image"
    /\ ~image_result.blank
    /\ image_result.crop_y = 0
    /\ image_result.height = page.page_height

\* The compositor has given an image for the one markup handed to it.
Composited == export.stage = "done" /\ export.item >= 1 /\ export.merged.tag = "image"

\* The markup and the page the compositor's image was made from.
CompositedMarkup == export.selected_items[export.item].markup

CompositedPage == export.selected_items[export.item].page_image

\* C14 (as claimed): every image the compositor gives is as wide as the
\* page image and is in mode RGB, whatever the markup's own width.
C14_PageWidthOpaque ==
    Composited =>
       /\ export.merged.width = CompositedPage.width
       /\ export.merged.mode = "RGB"

\* C15 (as claimed): the markup is resized by page width / markup width,
\* keeping its proportions, and, no crop offset being known to the
\* compositor, laid over the page uncropped: a stroke at (x, y) of the
\* markup shows at (x, y) * page width / markup width.
C15_MarkupScaled ==
    (Composited /\ CompositedMarkup.width > 0) =>
       /\ export.merged.overlay.drawn
       /\ export.merged.overlay.x
             = (CompositedMarkup.x * CompositedPage.width) \div CompositedMarkup.width
       /\ export.merged.overlay.y
             = (CompositedMarkup.y * CompositedPage.width) \div CompositedMarkup.width

\* C16 (as claimed): a markup that is not XML or has no area makes
\* merge_markup_with_page return None without raising, and export_to_joplin
\* then still shows the page image of that annotation.
C16_InvalidMarkupDegrades ==
    (/\ export.stage = "done"
     /\ export.by = "export_to_joplin"
     /\ Len(export.selected_items) = 1
     /\ export.selected_items[1].svg_exists
     /\ export.selected_items[1].jpg_exists
     /\ \/ ~export.selected_items[1].markup.parses
        \/ export.selected_items[1].markup.width = 0
        \/ export.selected_items[1].markup.height = 0)
       => /\ export.merged.tag = "None"
          /\ export.shown = "preview"

\* C17 (as claimed): a placeholder that get_page_image returns differs from
\* every result of a successful render in more than its pixels.
C17_PlaceholderTold ==
    (image_result.tag = "image" /\ image_result.blank)
       => [image_result EXCEPT !.blank = FALSE]
             \notin FirstPageImages(page) \cup CropImages(page)

\* The steps of get_page_image, in the order the request took them.
Stages == {"read_epub", "locate", "html", "settings", "imgkit", "crop"}

\* C18: within one request no step of get_page_image is taken twice, a step
\* that failed included: the request ends with the failure.
C18_NoRetry ==
    /\ \A i \in 1..Len(trace) : trace[i] \in Stages
    /\ \A i, j \in 1..Len(trace) : i < j => trace[i] # trace[j]

\* C18: the rasterizer failed on the chapter render and the request ended
\* there with the placeholder.
C18_Witness ==
    /\ pc = "done"
    /\ chapter_progress # Unbound
    /\ image_result.tag = "image"
    /\ image_result.blank
    /\ trace = <<"read_epub", "locate", "html", "settings", "imgkit">>

\* get_page_image has returned a rendered page, not the placeholder.
Rendered == pc = "done" /\ image_result.tag = "image" /\ ~image_result.blank

\* The calls of the rasterizer and the crop, in the order they were made.
RasterSteps == SelectSeq(trace, LAMBDA st : st \in {"imgkit", "crop"})

\* C19 (as claimed): a successful render invokes the rasterizer twice, to
\* measure and then to produce, before the viewport is computed.
C19_MeasureThenProduce ==
    Rendered => RasterSteps = <<"imgkit", "imgkit", "crop">>

\* C19 (amended): a successful render reads the package, decodes and
\* locates, builds the HTML, reads the settings and invokes the rasterizer
\* once, in that order; with a ChapterProgress that one bitmap is measured
\* and cropped, the crop top being computed from the height of the
\* completed render, and without one nothing is computed or cropped.  The
\* crop never starts before the render has completed.
C19_StageOrder ==
    /\ Rendered =>
          \/ /\ trace = <<"read_epub", "locate", "html", "settings", "imgkit", "crop">>
             /\ chapter_progress # Unbound
             /\ total_height \in Heights
             /\ image_result.total_height = total_height
             /\ image_result.crop_y =
                   CropY(chapter_progress, total_height, page.page_height)
          \/ /\ trace = <<"read_epub", "locate", "html", "settings", "imgkit">>
             /\ chapter_progress = Unbound
             /\ image_result.crop_y = 0
    /\ pc = "crop" =>
          /\ trace = <<"read_epub", "locate", "html", "settings", "imgkit">>
          /\ total_height \in Heights

\* C19 happens: a page inside a chapter taller than the page was rendered
\* and cropped.
C19_Witness ==
    /\ Rendered
    /\ trace = <<"read_epub", "locate", "html", "settings", "imgkit", "crop">>
    /\ total_height > page.page_height
    /\ image_result.crop_y > 0

\* The steps of get_page_image that run inside the with block of line 1051.
InsideWith == {"settings", "render", "measure", "crop", "firstpage"}

\* C20: whatever way a request ends (a rendered page, None from the
\* locator, the placeholder after a failure, an exception), it holds neither
\* the temporary directory nor a database connection afterwards; a
\* connection never outlives the call that opened it, and the temporary
\* directory exists only inside the with block.
C20_ResourcesReleased ==
    /\ "connection" \notin held
    /\ pc \notin InsideWith => held = {}

\* C20 happens: the query of get_annotation_position raised, the temporary
\* directory was made, the rasterizer failed, and nothing is held.
C20_Witness ==
    /\ pc = "done"
    /\ db = "query_error"
    /\ trace = <<"read_epub", "locate", "html", "settings", "imgkit">>
    /\ image_result.tag = "image"
    /\ image_result.blank
    /\ held = {}

\* C24 (as claimed): whenever get_annotation_position gives a record and
\* get_page_image finds a chapter for the same content id and formats, the
\* two have decided by the same kind of format and read the same chapter
\* number.
C24_DecodersAgree ==
    (db = "row" /\ position_result.tag = "record" /\ chapter.tag = "chapter")
       => /\ chapter.kind = position_result.kind
          /\ chapter.chapter_num = position_result.chapter_num

\* C25 (as claimed): get_annotation_position gives a record or None, never
\* an exception, whatever the database does and whatever the content id
\* holds, and leaves no connection open.
C25_PositionNeverRaises ==
    /\ position_result.tag \in {"pending", "record", "None"}
    /\ "connection" \notin held

\* The selected markup annotation can be composited: both files exist, the
\* page opens as an image and the markup parses.
Compositable(item) ==
    /\ item.svg_exists
    /\ item.jpg_exists
    /\ item.page_image # NotAnImage
    /\ item.markup.parses

\* C23 (as claimed): in an export of markup annotations an annotation that
\* cannot be composited is skipped and the next one is processed: the first
\* that can be composited is previewed, and the error box is shown only
\* when none of the selected annotations can be composited.
C23_BatchGoesOn ==
    (export.stage = "done" /\ export.by = "export_to_joplin")
       => /\ export.shown = "showerror"
                => \A k \in 1..Len(export.selected_items) :
                      ~Compositable(export.selected_items[k])
          /\ export.shown = "preview"
                => /\ Compositable(export.selected_items[export.item])
                   /\ \A k \in 1..(export.item - 1) :
                         ~Compositable(export.selected_items[k])

\* ------------------------------------------------------------------
\* Statements about startup and the detection of devices.

C29_PollRearmsAndNotifies ==
    /\ [](startup.stage = "running" => timer >= 1)
    /\ [][PeriodicDeviceDetection =>
            /\ timer' >= 1
            /\ notice' \in {"", "Device Detected", "Device Removed"}
            /\ notice' # "" => Names(kobo_devices') # Names(kobo_devices)
            /\ notice' = "Device Removed" => kobo_devices' = <<>>
            /\ notice' = "Device Detected" => kobo_devices' # <<>>]_vars

\* C29 happens: the only device was removed and the poll said so, with the
\* next poll pending.
C29_Witness ==
    /\ startup.stage = "running"
    /\ notice = "Device Removed"
    /\ kobo_devices = <<>>
    /\ timer = 1

\* C30 (as claimed): a poll that detects the names detected before it
\* leaves the selected device and the listed books as they were, and after
\* a poll every listed name has the drive of a connected device.
C30_PollKeepsSelection ==
    [][PeriodicDeviceDetection =>
          /\ Names(kobo_devices') = Names(kobo_devices)
                => dropdown' = dropdown /\ books' = books
          /\ \A name \in Names(kobo_devices') :
                /\ name \in DOMAIN device_paths'
                /\ Listed(connected'[device_paths'[name]])]_vars

\* ------------------------------------------------------------------
\* Statements about the export button and the export to Joplin.

\* A markup row is selected; a row of another type is selected.
MarkupSelected == \E i \in selection : Tree[i].type = "markup"

OtherSelected == \E i \in selection : Tree[i].type # "markup"

\* C26: the export button follows the selection: disabled, reading Export
\* to Joplin, exactly when markup and other rows are selected together;
\* enabled and reading Preview Image exactly when rows are selected and all
\* are markup; enabled and reading Export to Joplin otherwise.  No export
\* starts while markup and other rows are selected together.
C26_ButtonFollowsSelection ==
    /\ [](startup.stage = "running" =>
            button = IF MarkupSelected /\ OtherSelected
                     THEN Button("Export to Joplin", "disabled")
                     ELSE IF MarkupSelected
                     THEN Button("Preview Image", "normal")
                     ELSE Button("Export to Joplin", "normal"))
    /\ [][exported' # exported => ~(MarkupSelected /\ OtherSelected)]_vars

\* C26 happens: a highlight and a markup are selected, the button is
\* disabled.
C26_Witness ==
    /\ selection = {1, 2}
    /\ button = Button("Export to Joplin", "disabled")

\* The books of the selected rows, and for the k-th of them the title of
\* its note and the annotations to export.
SelectedBooks == BookKeys(SelectedItems(selection, 1), 1, {})

SelectedTitle(k) == note_title(SelectedBooks[k][1], SelectedBooks[k][2])

SelectedContent(k) ==
    NoteContent(SelectedItems(selection, 1), SelectedBooks[k][1], SelectedBooks[k][2], 1)

\* The notes of the title in the configured notebook.
Titled(joplin, title) ==
    {i \in 1..Len(joplin) : joplin[i].parent_id = notebook_id /\ joplin[i].title = title}

\* C27 (as claimed): an export of annotations that reports no error writes
\* one note per selected book: when the configured notebook has a note of
\* the book's title, that note gets its old body, stripped of trailing
\* whitespace, followed by the new annotations, and no note is added for
\* the book; otherwise one note of that title is added to the configured
\* notebook; no other note changes, none in another notebook.
C27_OneNotePerBook ==
    [][(ExportNotes /\ exported'.returned = "True" /\ exported'.failed = {}) =>
          /\ \A k \in 1..Len(SelectedBooks) :
                IF Titled(notes, SelectedTitle(k)) # {}
                THEN /\ Titled(notes', SelectedTitle(k)) = Titled(notes, SelectedTitle(k))
                     /\ \E i \in Titled(notes, SelectedTitle(k)) :
                           notes'[i].body = RStrip(notes[i].body) \o SelectedContent(k)
                ELSE /\ Cardinality(Titled(notes', SelectedTitle(k))) = 1
                     /\ \A i \in Titled(notes', SelectedTitle(k)) :
                           i > Len(notes) /\ notes'[i].body = SelectedContent(k)
          /\ Len(notes') >= Len(notes)
          /\ \A i \in 1..Len(notes) :
                notes'[i] # notes[i]
                   => /\ notes[i].parent_id = notebook_id
                      /\ \E k \in 1..Len(SelectedBooks) : notes[i].title = SelectedTitle(k)]_vars

\* C28 (as claimed): when export_to_joplin has shown the success box and
\* returned True, no note of the export failed to be created or updated.
C28_SuccessMeansAllWritten ==
    (exported.returned = "True"
        /\ \E i \in 1..Len(exported.shown) :
              exported.shown[i] = "Annotations exported successfully!")
       => exported.failed = {}

\* ------------------------------------------------------------------
\* Statements about the temporary files.

\* C21: two requests of different bookmarks never hold the same temporary
\* path, and every path a request has created and not removed itself still
\* exists: the other has neither overwritten nor deleted it.
C21_TempPathsDisjoint ==
    /\ requests[1].owns \cap requests[2].owns = {}
    /\ \A r \in Requesters : requests[r].owns \subseteq files

\* C21 happens: a render and an export of a preview hold their files at the
\* same time.
C21_Witness ==
    /\ requests[1].kind = "chapter"
    /\ PngPath(requests[1].temp_dir, "chapter") \in requests[1].owns
    /\ requests[2].kind = "preview"
    /\ PreviewPath(BookmarkId(2)) \in requests[2].owns

====
